---- MODULE Spec2Model ----
(***************************************************************************)
(* Structured-output LLM pipeline of lp-ai-analyzer: the schema registry   *)
(* (src/llm/schemas.py), the two vendor adapters (gemini_client.py,        *)
(* openai_client.py), the JSON-safety conversion (utils/json_tools.py),    *)
(* the prompt builder (llm/prompts.py) and run_structured_pipeline         *)
(* (llm/pipeline.py).                                                      *)
(*                                                                         *)
(* Python values are tagged records, so that values of different Python    *)
(* types can be compared:                                                  *)
(*   None            [t |-> "none"]                                        *)
(*   str             [t |-> "str",  s |-> "..."]                           *)
(*   int             [t |-> "int",  n |-> 1]                               *)
(*   list            [t |-> "list", items |-> <<...>>]                     *)
(*   dict            [t |-> "dict", d |-> [key |-> value, ...]]            *)
(*   SDK object      [t |-> "obj",  d |-> [...]]   (exposes model_dump())  *)
(*   schema instance [t |-> "model", cls |-> "Issue", f |-> [...]]         *)
(***************************************************************************)
EXTENDS Integers, Sequences, FiniteSets, TLC

\* ------------------------------------------------------------------------
\* Bounds of the model
\* ------------------------------------------------------------------------

\* longest list of nested items in a generated payload
MaxItems == 2

\* most candidates in a generated Gemini response
MaxCandidates == 2

\* most choices in a generated OpenAI completion
MaxChoices == 1

\* ------------------------------------------------------------------------
\* Python values
\* ------------------------------------------------------------------------

NoneV == [t |-> "none"]

StrV(s) == [t |-> "str", s |-> s]

IntV(n) == [t |-> "int", n |-> n]

ListV(xs) == [t |-> "list", items |-> xs]

TupleV(xs) == [t |-> "tuple", items |-> xs]

\* a set, its items in the order iteration yields them
SetV(xs) == [t |-> "set", items |-> xs]

BoolV(b) == [t |-> "bool", b |-> b]

\* a float, by its repr
FloatV(r) == [t |-> "float", repr |-> r]

\* a dict with keys of any hashable type: its items in insertion order
MappingV(pairs) == [t |-> "mapping", pairs |-> pairs]

\* what getattr(value, attr, None) gives and what calling it does
Absent == [kind |-> "absent"]

Raises == [kind |-> "raises"]

Returning(v) == [kind |-> "returns", value |-> v]

\* an object of some class: its extraction methods, vars(value), str(value)
ObjectV(model_dump_, dict_, to_dict_, as_dict_, vars_, repr_) ==
    [t |-> "object",
     methods |-> <<model_dump_, dict_, to_dict_, as_dict_>>,
     vars |-> vars_, repr |-> repr_]

DictV(d) == [t |-> "dict", d |-> d]

ObjV(d) == [t |-> "obj", d |-> d]

EmptyDict == DictV(<<>>)

\* bool(value) as Python evaluates it in `if value:` / `a or b`
Truthy(v) ==
    CASE v.t = "none" -> FALSE
      [] v.t = "str"  -> v.s # ""
      [] v.t = "int"  -> v.n # 0
      [] v.t = "bool" -> v.b
      [] v.t \in {"list", "tuple", "set"} -> v.items # <<>>
      [] v.t = "dict" -> DOMAIN v.d # {}
      [] OTHER        -> TRUE

\* all sequences over S of length 0..n
SeqsUpTo(S, n) == UNION {[1..k -> S] : k \in 0..n}

RECURSIVE DictsOver(_, _)
\* all dicts whose key set is a subset of keys, the value of key k drawn
\* from vals[k]
DictsOver(keys, vals) ==
    IF keys = {} THEN {<<>>}
    ELSE LET k == CHOOSE x \in keys : TRUE
             rest == DictsOver(keys \ {k}, vals)
         IN rest \cup {[x \in DOMAIN f \cup {k} |-> IF x = k THEN v ELSE f[x]] :
                        f \in rest, v \in vals[k]}

\* ------------------------------------------------------------------------
\* Schema registry (src/llm/schemas.py)
\* ------------------------------------------------------------------------

\* the registered schemas
Schemas == {"Issue", "Improvement", "VariantOption", "ImprovementPoint",
            "AnalysisResult", "DiffResult"}

\* a severity enumeration with a fourth member
IssueSeverity_with_urgent == {"low", "medium", "high", "urgent"}

\* class IssueSeverity(str, Enum)
IssueSeverity == {"low", "medium", "high"}

\* a base model that leaves out extra="forbid": pydantic's default, "ignore"
StrictBaseModel_extra_ignored == [extra |-> "ignore", populate_by_name |-> TRUE]

\* model_config = ConfigDict(extra="forbid", ...), inherited by every schema
StrictBaseModel == [extra |-> "forbid", populate_by_name |-> TRUE]

\* field kinds: "str" (str), "optstr" (Optional[str]), "severity"
\* (IssueSeverity), "list" (List[item]); required = declared with `...` or
\* without a default
ReqStr == [kind |-> "str", required |-> TRUE, default |-> NoneV, item |-> ""]

OptStr == [kind |-> "optstr", required |-> FALSE, default |-> NoneV, item |-> ""]

ListOf(cls) == [kind |-> "list", required |-> TRUE, default |-> NoneV, item |-> cls]

\* an Issue whose declared default is not a member of IssueSeverity
Issue_default_outside_enum ==
    [title    |-> ReqStr,
     detail   |-> ReqStr,
     evidence |-> OptStr,
     severity |-> [kind |-> "severity", required |-> FALSE,
                   default |-> StrV("normal"), item |-> ""]]

Issue ==
    [title    |-> ReqStr,
     detail   |-> ReqStr,
     evidence |-> OptStr,
     severity |-> [kind |-> "severity", required |-> FALSE,
                   default |-> StrV("medium"), item |-> ""]]

Improvement ==
    [title         |-> ReqStr,
     rationale     |-> ReqStr,
     targets_issue |-> OptStr]

VariantOption ==
    [version |-> ReqStr,
     label   |-> ReqStr,
     search  |-> ReqStr,
     replace |-> ReqStr]

ImprovementPoint ==
    [point_id    |-> ReqStr,
     point_name  |-> ReqStr,
     description |-> ReqStr,
     file_path   |-> ReqStr,
     variants    |-> ListOf("VariantOption")]

AnalysisResult ==
    [summary      |-> OptStr,
     issues       |-> ListOf("Issue"),
     improvements |-> ListOf("Improvement")]

DiffResult ==
    [improvement_points |-> ListOf("ImprovementPoint")]

\* the declared fields of a schema, by class name
SchemaOf(cls) ==
    CASE cls = "Issue"            -> Issue
      [] cls = "Improvement"      -> Improvement
      [] cls = "VariantOption"    -> VariantOption
      [] cls = "ImprovementPoint" -> ImprovementPoint
      [] cls = "AnalysisResult"   -> AnalysisResult
      [] cls = "DiffResult"       -> DiffResult

ModelV(cls, f) == [t |-> "model", cls |-> cls, f |-> f]

\* one line of a pydantic ValidationError: the field path and the error type
ErrAt(loc, type) == [loc |-> loc, type |-> type]

RECURSIVE model_validate_at(_, _, _, _)
RECURSIVE validate_field(_, _, _, _)

\* validation of one present field value v against its declared type
validate_field(spec, v, loc, config) ==
    CASE spec.kind = "str" ->
           IF v.t = "str" THEN [ok |-> TRUE, value |-> v, errs |-> {}]
           ELSE [ok |-> FALSE, value |-> NoneV, errs |-> {ErrAt(loc, "string_type")}]
      [] spec.kind = "optstr" ->
           IF v.t \in {"str", "none"} THEN [ok |-> TRUE, value |-> v, errs |-> {}]
           ELSE [ok |-> FALSE, value |-> NoneV, errs |-> {ErrAt(loc, "string_type")}]
      [] spec.kind = "severity" ->
           IF v.t = "str" /\ v.s \in IssueSeverity
           THEN [ok |-> TRUE, value |-> v, errs |-> {}]
           ELSE [ok |-> FALSE, value |-> NoneV, errs |-> {ErrAt(loc, "enum")}]
      [] spec.kind = "list" ->
           IF v.t # "list"
           THEN [ok |-> FALSE, value |-> NoneV, errs |-> {ErrAt(loc, "list_type")}]
           ELSE LET n == Len(v.items)
                    r == [i \in 1..n |->
                            model_validate_at(spec.item, v.items[i],
                                              loc \o <<ToString(i - 1)>>, config)]
                    allok == \A i \in 1..n : r[i].ok
                IN [ok    |-> allok,
                    value |-> IF allok THEN ListV([i \in 1..n |-> r[i].value])
                              ELSE NoneV,
                    errs  |-> UNION {r[i].errs : i \in 1..n}]

\* validation of a value against schema cls, located at loc in the payload,
\* under model config `config`
model_validate_at(cls, v, loc, config) ==
    IF v.t = "model"
    THEN IF v.cls = cls THEN [ok |-> TRUE, value |-> v, errs |-> {}]
         ELSE [ok |-> FALSE, value |-> NoneV, errs |-> {ErrAt(loc, "model_type")}]
    ELSE IF v.t # "dict"
    THEN [ok |-> FALSE, value |-> NoneV, errs |-> {ErrAt(loc, "model_type")}]
    ELSE LET schema == SchemaOf(cls)
             names == DOMAIN schema
             given == DOMAIN v.d
             r == [f \in names \cap given |->
                     validate_field(schema[f], v.d[f], loc \o <<f>>, config)]
             missing == {ErrAt(loc \o <<f>>, "missing") :
                           f \in {g \in names \ given : schema[g].required}}
             extra == IF config.extra = "forbid"
                      THEN {ErrAt(loc \o <<k>>, "extra_forbidden") : k \in given \ names}
                      ELSE {}
             errs == missing \cup extra \cup UNION {r[f].errs : f \in names \cap given}
         IN IF errs = {}
            THEN [ok |-> TRUE,
                  value |-> ModelV(cls, [f \in names |->
                                           IF f \in given THEN r[f].value
                                           ELSE schema[f].default]),
                  errs |-> {}]
            ELSE [ok |-> FALSE, value |-> NoneV, errs |-> errs]

\* schema.model_validate(payload)
model_validate(cls, v) == model_validate_at(cls, v, <<>>, StrictBaseModel)

RECURSIVE model_dump(_)
\* instance.model_dump(): every declared field, nested instances as dicts
model_dump(m) ==
    CASE m.t = "model" -> DictV([f \in DOMAIN m.f |-> model_dump(m.f[f])])
      [] m.t = "list"  -> ListV([i \in 1..Len(m.items) |-> model_dump(m.items[i])])
      [] OTHER         -> m

\* ------------------------------------------------------------------------
\* Schema descriptor for Gemini (src/llm/schemas.py, lines 142-161)
\* ------------------------------------------------------------------------

\* the declared fields of a schema, in declaration order
FieldOrder(cls) ==
    CASE cls = "Issue"            -> <<"title", "detail", "evidence", "severity">>
      [] cls = "Improvement"      -> <<"title", "rationale", "targets_issue">>
      [] cls = "VariantOption"    -> <<"version", "label", "search", "replace">>
      [] cls = "ImprovementPoint" -> <<"point_id", "point_name", "description",
                                      "file_path", "variants">>
      [] cls = "AnalysisResult"   -> <<"summary", "issues", "improvements">>
      [] cls = "DiffResult"       -> <<"improvement_points">>

\* one item of a JSON-schema dict
Pair(key, value) == [k |-> StrV(key), v |-> value]

HasKey(m, key) == \E i \in 1..Len(m.pairs) : m.pairs[i].k.s = key

\* m[key]
ValueAt(m, key) == m.pairs[CHOOSE i \in 1..Len(m.pairs) : m.pairs[i].k.s = key].v

\* the keys the Gemini SDK does not accept
UnsupportedKeys == {"additionalProperties", "unevaluatedProperties", "patternProperties"}

\* what a schema document may carry beyond pydantic's plain output: which of
\* the unsupported keys its object nodes have (pydantic itself writes
\* additionalProperties for extra="forbid"), and whether they already have a
\* propertyOrdering (then the declared order reversed)
Decorations == [unsupported : SUBSET UnsupportedKeys, preset : BOOLEAN]

\* pydantic's output for these schemas
PydanticOutput == [unsupported |-> {"additionalProperties"}, preset |-> FALSE]

\* the JSON schema of one field
PropertySchema(spec) ==
    CASE spec.kind = "str" -> MappingV(<<Pair("type", StrV("string"))>>)
      [] spec.kind = "optstr" ->
           MappingV(<<Pair("anyOf", ListV(<<MappingV(<<Pair("type", StrV("string"))>>),
                                            MappingV(<<Pair("type", StrV("null"))>>)>>)),
                      Pair("default", spec.default)>>)
      [] spec.kind = "severity" ->
           MappingV(<<Pair("$ref", StrV("#/$defs/IssueSeverity")),
                      Pair("default", spec.default)>>)
      [] spec.kind = "list" ->
           MappingV(<<Pair("items", MappingV(<<Pair("$ref", StrV("#/$defs/" \o spec.item))>>)),
                      Pair("type", StrV("array"))>>)

Reversed(xs) == [i \in 1..Len(xs) |-> xs[Len(xs) + 1 - i]]

\* the object node of schema cls; its keys in pydantic's (sorted) order, its
\* properties in declaration order
ObjectSchema(cls, deco, defs) ==
    LET order == FieldOrder(cls)
        schema == SchemaOf(cls)
        test(f) == schema[f].required
        opt(key, value) == IF key \in deco.unsupported THEN <<Pair(key, value)>> ELSE <<>>
    IN MappingV(
         (IF defs # <<>> THEN <<Pair("$defs", MappingV(defs))>> ELSE <<>>)
         \o opt("additionalProperties", BoolV(FALSE))
         \o opt("patternProperties", MappingV(<<Pair("^x-", MappingV(<<Pair("type", StrV("string"))>>))>>))
         \o <<Pair("properties",
                   MappingV([i \in 1..Len(order) |->
                               Pair(order[i], PropertySchema(schema[order[i]]))]))>>
         \o (IF deco.preset
             THEN <<Pair("propertyOrdering",
                         ListV([i \in 1..Len(order) |-> StrV(Reversed(order)[i])]))>>
             ELSE <<>>)
         \o <<Pair("required", ListV([i \in 1..Len(SelectSeq(order, test)) |->
                                        StrV(SelectSeq(order, test)[i])])),
              Pair("title", StrV(cls)),
              Pair("type", StrV("object"))>>
         \o opt("unevaluatedProperties", BoolV(FALSE)))

RECURSIVE Referenced(_)
\* the definitions the schema of cls refers to, directly or not
Referenced(cls) ==
    LET schema == SchemaOf(cls)
        direct == {schema[f].item : f \in {g \in DOMAIN schema : schema[g].kind = "list"}}
    IN direct \cup UNION {Referenced(c) : c \in direct}
         \cup (IF \E f \in DOMAIN schema : schema[f].kind = "severity"
               THEN {"IssueSeverity"} ELSE {})

\* the names $defs can hold, sorted
DefOrder == <<"Improvement", "ImprovementPoint", "Issue", "IssueSeverity", "VariantOption">>

\* model_cls.model_json_schema(), the document decorated by deco
model_json_schema(cls, deco) ==
    LET test(d) == d \in Referenced(cls)
        names == SelectSeq(DefOrder, test)
        def(d) == IF d = "IssueSeverity"
                  THEN MappingV(<<Pair("enum", ListV(<<StrV("low"), StrV("medium"), StrV("high")>>)),
                                  Pair("title", StrV(d)),
                                  Pair("type", StrV("string"))>>)
                  ELSE ObjectSchema(d, deco, <<>>)
    IN ObjectSchema(cls, deco, [i \in 1..Len(names) |-> Pair(names[i], def(names[i]))])

\* a _strip_unsupported_keys that cleans the dict it is given but not the
\* values inside it
_strip_unsupported_keys_top_level_only(obj) ==
    IF obj.t = "mapping"
    THEN LET test(p) == p.k.s \notin UnsupportedKeys
             cleaned == MappingV(SelectSeq(obj.pairs, test))
         IN IF /\ HasKey(cleaned, "type")
               /\ ValueAt(cleaned, "type") = StrV("object")
               /\ HasKey(cleaned, "properties")
               /\ ~HasKey(cleaned, "propertyOrdering")
            THEN MappingV(cleaned.pairs
                            \o <<Pair("propertyOrdering",
                                      ListV([i \in 1..Len(ValueAt(cleaned, "properties").pairs) |->
                                               ValueAt(cleaned, "properties").pairs[i].k]))>>)
            ELSE cleaned
    ELSE obj

RECURSIVE _strip_unsupported_keys(_)
\* _strip_unsupported_keys(obj); a schema document is made of dicts in
\* insertion order, lists and primitives
_strip_unsupported_keys(obj) ==
    IF obj.t = "mapping"
    THEN LET test(p) == p.k.s \notin UnsupportedKeys
             kept == SelectSeq(obj.pairs, test)
             cleaned == MappingV([i \in 1..Len(kept) |->
                                    [k |-> kept[i].k,
                                     v |-> _strip_unsupported_keys(kept[i].v)]])
         IN IF /\ HasKey(cleaned, "type")
               /\ ValueAt(cleaned, "type") = StrV("object")
               /\ HasKey(cleaned, "properties")
               /\ ~HasKey(cleaned, "propertyOrdering")
            THEN MappingV(cleaned.pairs
                            \o <<Pair("propertyOrdering",
                                      ListV([i \in 1..Len(ValueAt(cleaned, "properties").pairs) |->
                                               ValueAt(cleaned, "properties").pairs[i].k]))>>)
            ELSE cleaned
    ELSE IF obj.t = "list"
    THEN ListV([i \in 1..Len(obj.items) |-> _strip_unsupported_keys(obj.items[i])])
    ELSE obj

\* model_schema_for_gemini(model_cls)
model_schema_for_gemini(model_cls) ==
    _strip_unsupported_keys(model_json_schema(model_cls, PydanticOutput))

\* model_schema_for_gemini of each registered schema, as a table
GeminiDescriptors == [cls \in Schemas |-> model_schema_for_gemini(cls)]

\* ------------------------------------------------------------------------
\* Python string helpers
\* ------------------------------------------------------------------------

\* s.startswith(p)
StartsWith(s, p) == Len(s) >= Len(p) /\ SubSeq(s, 1, Len(p)) = p

\* sub in s
Contains(s, sub) ==
    \E i \in 1..(Len(s) - Len(sub) + 1) : SubSeq(s, i, i + Len(sub) - 1) = sub

\* s.upper(), on the finish-reason spellings a vendor response can carry
PyUpper(s) ==
    CASE s \in {"max_tokens", "Max_Tokens"} -> "MAX_TOKENS"
      [] s = "maxtokens" -> "MAXTOKENS"
      [] s = "safety"    -> "SAFETY"
      [] s = "stop"      -> "STOP"
      [] OTHER           -> s

\* str(value) of a str, an int, a bool, a float or None
PyStr(v) ==
    CASE v.t = "str"   -> v.s
      [] v.t = "int"   -> ToString(v.n)
      [] v.t = "bool"  -> IF v.b THEN "True" ELSE "False"
      [] v.t = "float" -> v.repr
      [] OTHER         -> "None"

\* ------------------------------------------------------------------------
\* JSON tools (src/utils/json_tools.py, json.loads)
\* ------------------------------------------------------------------------

\* the first of the attributes model_dump, dict, to_dict, as_dict of an object
\* that is callable and returns, or 0
FirstUsableMethod(v) ==
    IF \E i \in 1..Len(v.methods) : v.methods[i].kind = "returns"
    THEN CHOOSE i \in 1..Len(v.methods) :
           /\ v.methods[i].kind = "returns"
           /\ \A j \in 1..(i - 1) : v.methods[j].kind # "returns"
    ELSE 0

\* the item of a dict's insertion order that a key built as str(k) ends up
\* holding: the last one whose key gives that string
LastWithKey(pairs, key) ==
    CHOOSE i \in 1..Len(pairs) :
      /\ PyStr(pairs[i].k) = key
      /\ \A j \in (i + 1)..Len(pairs) : PyStr(pairs[j].k) # key

RECURSIVE make_json_safe_keys_unconverted(_)
\* a make_json_safe whose dict branch keeps the keys as they are
make_json_safe_keys_unconverted(v) ==
    CASE v.t \in {"none", "str", "int", "float", "bool"} -> v
      [] v.t \in {"list", "tuple", "set"} ->
           ListV([i \in 1..Len(v.items) |-> make_json_safe_keys_unconverted(v.items[i])])
      [] v.t = "dict" ->
           DictV([k \in DOMAIN v.d |-> make_json_safe_keys_unconverted(v.d[k])])
      [] v.t = "mapping" ->
           MappingV([i \in 1..Len(v.pairs) |->
                       [k |-> v.pairs[i].k,
                        v |-> make_json_safe_keys_unconverted(v.pairs[i].v)]])
      [] v.t = "model" -> make_json_safe_keys_unconverted(model_dump(v))
      [] v.t = "obj" -> make_json_safe_keys_unconverted(DictV(v.d))
      [] v.t = "object" ->
           IF FirstUsableMethod(v) # 0
           THEN make_json_safe_keys_unconverted(v.methods[FirstUsableMethod(v)].value)
           ELSE IF v.vars.kind = "returns"
           THEN make_json_safe_keys_unconverted(v.vars.value)
           ELSE StrV(v.repr)
      [] OTHER -> StrV(v.repr)

RECURSIVE make_json_safe(_)
\* make_json_safe(value); "dict" is a dict whose keys are all strings, "obj"
\* an SDK object whose model_dump returns the dict d
make_json_safe(v) ==
    CASE v.t \in {"none", "str", "int", "float", "bool"} -> v
      [] v.t \in {"list", "tuple", "set"} ->
           ListV([i \in 1..Len(v.items) |-> make_json_safe(v.items[i])])
      [] v.t = "dict" -> DictV([k \in DOMAIN v.d |-> make_json_safe(v.d[k])])
      [] v.t = "mapping" ->
           DictV([key \in {PyStr(v.pairs[i].k) : i \in 1..Len(v.pairs)} |->
                    make_json_safe(v.pairs[LastWithKey(v.pairs, key)].v)])
      [] v.t = "model" -> make_json_safe(model_dump(v))
      [] v.t = "obj" -> make_json_safe(DictV(v.d))
      [] v.t = "object" ->
           IF FirstUsableMethod(v) # 0
           THEN make_json_safe(v.methods[FirstUsableMethod(v)].value)
           ELSE IF v.vars.kind = "returns" THEN make_json_safe(v.vars.value)
           ELSE StrV(v.repr)
      [] OTHER -> StrV(v.repr)

\* the texts a vendor response can carry
TextTruncated == "{\"issues\":[{\"title\":"

TextNull == "null"

TextEmptyObject == "{}"

TextValid ==
    "{\"summary\":\"s\",\"issues\":[{\"title\":\"t\",\"detail\":\"d\"}],\"improvements\":[]}"

TextUnknownField ==
    "{\"issues\":[{\"title\":\"t\",\"detail\":\"d\",\"unknown\":\"x\"}],\"improvements\":[]}"

TextEmptyList == "[]"

TextNumber == "0"

TextString == "\"x\""

TextFalse == "false"

\* json.loads(text): ok = FALSE stands for json.JSONDecodeError
json_loads(text) ==
    CASE text = TextNull -> [ok |-> TRUE, value |-> NoneV]
      [] text = TextEmptyObject -> [ok |-> TRUE, value |-> EmptyDict]
      [] text = TextEmptyList -> [ok |-> TRUE, value |-> ListV(<<>>)]
      [] text = TextNumber -> [ok |-> TRUE, value |-> IntV(0)]
      [] text = TextString -> [ok |-> TRUE, value |-> StrV("x")]
      [] text = TextFalse -> [ok |-> TRUE, value |-> BoolV(FALSE)]
      [] text = TextValid ->
           [ok |-> TRUE,
            value |-> DictV([summary |-> StrV("s"),
                             issues |-> ListV(<<DictV([title |-> StrV("t"),
                                                       detail |-> StrV("d")])>>),
                             improvements |-> ListV(<<>>)])]
      [] text = TextUnknownField ->
           [ok |-> TRUE,
            value |-> DictV([issues |-> ListV(<<DictV([title |-> StrV("t"),
                                                       detail |-> StrV("d"),
                                                       unknown |-> StrV("x")])>>),
                             improvements |-> ListV(<<>>)])]
      [] OTHER -> [ok |-> FALSE, value |-> NoneV]

\* ------------------------------------------------------------------------
\* Prompt construction (src/llm/prompts.py)
\* ------------------------------------------------------------------------

MAX_HTML_CHARS == 12000

MAX_CSS_CHARS == 8000

\* the budgets up to 400 for which the double product max_chars * 0.7 lies
\* below the integer 7 * max_chars / 10
TruncatedLow == {90, 170, 180, 330, 340, 350, 360}

\* a head of 60 per cent
head_keep_sixty_percent(max_chars) == (6 * max_chars) \div 10

\* int(max_chars * 0.7), for max_chars <= 400 and the two program budgets
head_keep(max_chars) ==
    IF max_chars \in TruncatedLow THEN (7 * max_chars) \div 10 - 1
    ELSE (7 * max_chars) \div 10

\* _clip_for_prompt(text, max_chars=..., comment_style=...)
_clip_for_prompt(text, max_chars, comment_style) ==
    IF Len(text) <= max_chars THEN text
    ELSE LET head == head_keep(max_chars)
             tail_keep == max_chars - head
             marker_body == ToString(Len(text) - max_chars)
                              \o " chars truncated for prompt budget"
             marker == CASE comment_style = "html" -> "\n<!-- " \o marker_body \o " -->\n"
                         [] comment_style = "css" -> "\n/* " \o marker_body \o " */\n"
                         [] OTHER -> "\n# " \o marker_body \o "\n"
             \* text[-0:] is the whole text
             tail == IF tail_keep = 0 THEN text
                     ELSE SubSeq(text, Len(text) - tail_keep + 1, Len(text))
         IN SubSeq(text, 1, head) \o marker \o tail

\* build_system_prompt(): the fixed default system prompt (abbreviated)
build_system_prompt == "You are a senior UI/UX designer. Audit the visual design of the LP."

\* RULES: the design rule card (abbreviated)
RULES == "\n## priority: typography, colour, layout, visual hierarchy\n"

\* build_analysis_prompt(html, css_bundle, extra_instruction); the code fences
\* are written ~~~
build_analysis_prompt(html, css_bundle, extra_instruction) ==
    LET extra == IF extra_instruction # ""
                 THEN "- extra request: " \o extra_instruction \o "\n" ELSE ""
        html_snippet == _clip_for_prompt(html, MAX_HTML_CHARS, "html")
        css_snippet == _clip_for_prompt(css_bundle, MAX_CSS_CHARS, "css")
    IN "\n# task\nAudit the visual design of the LP and answer in the given JSON form.\n"
         \o extra \o "\n# design rule card\n" \o RULES
         \o "\n# reference code\n## index.html\n~~~html\n" \o html_snippet
         \o "\n~~~\n\n## styles_external_bundle.css\n~~~css\n" \o css_snippet
         \o "\n~~~\n"

\* ------------------------------------------------------------------------
\* Exceptions (src/llm/exceptions.py)
\* ------------------------------------------------------------------------

\* StructuredCallError(message, raw_text=..., parsed=..., response_debug=...)
StructuredCallError(message, raw_text, parsed, response_debug) ==
    [type |-> "StructuredCallError", message |-> message, raw_text |-> raw_text,
     parsed |-> parsed, response_debug |-> response_debug]

\* any other exception class, which carries a message only
OtherError(type, message) == [type |-> type, message |-> message]

\* the outcome of a call: a returned (value, debug) pair or a raised exception
Returned(value, debug) == [status |-> "returned", value |-> value, debug |-> debug]

Raised(exc) == [status |-> "raised", exc |-> exc]

\* The three failure kinds are one exception class; a kind is recognisable by
\* the raise site, that is by the fixed part of the message.
ErrorKind(exc) ==
    IF exc.type # "StructuredCallError" THEN "unclassified"
    ELSE IF Contains(exc.message, " API call failed at ") THEN "CallFailed"
    ELSE IF Contains(exc.message, " structured output missing parsed payload for ")
         THEN "MissingPayload"
    ELSE IF Contains(exc.message, " structured output failed validation for ")
         THEN "ValidationFailed"
    ELSE "unclassified"

\* ------------------------------------------------------------------------
\* Gemini adapter (src/llm/gemini_client.py)
\* ------------------------------------------------------------------------

\* the hint texts are abbreviated; the keys are the code's
VERBOSITY_HINT ==
    [low |-> "concise, key points only", medium |-> "moderately detailed",
     high |-> "explain in detail"]

EFFORT_HINT ==
    [minimal |-> "conclude quickly", medium |-> "standard reasoning",
     high |-> "careful multi-step reasoning"]

\* the notes appended to a MissingPayload message (abbreviated)
MaxTokensNote == " - the output reached the maximum number of tokens."

SafetyNote == " - blocked by the safety filter."

\* GeminiStructuredAgent(model, verbosity, effort)
GeminiStructuredAgent(model, verbosity, effort) ==
    [vendor |-> "gemini", model |-> model, verbosity |-> verbosity, effort |-> effort]

\* a _base_config that folds the two hints into the system text
_base_config_hints_folded(self, system) ==
    [system_instruction |-> <<system \o "\ngranularity:" \o VERBOSITY_HINT[self.verbosity]
                                     \o "\nthinking:" \o EFFORT_HINT[self.effort]>>,
     temperature |-> "0.2"]

\* _base_config(system); called only when both hint keys exist
_base_config(self, system) ==
    [system_instruction |-> <<system,
                              "granularity:" \o VERBOSITY_HINT[self.verbosity],
                              "thinking:" \o EFFORT_HINT[self.effort]>>,
     temperature |-> "0.2"]

\* the loop over response.candidates (lines 89-101): candidate_texts
gemini_candidate_texts(response) ==
    LET HasText(c) == Truthy(c.text)
        with == SelectSeq(response.candidates, HasText)
    IN [i \in 1..Len(with) |-> with[i].text]

\* a raw text that is response.text whenever that is non-empty
gemini_raw_text_prefers_response_text(response) ==
    LET texts == gemini_candidate_texts(response)
    IN IF Truthy(response.text) \/ texts = <<>> THEN response.text ELSE texts[1]

\* ... raw_text, with the fallback to response.text (lines 95-96, 104-105)
gemini_raw_text(response) ==
    LET texts == gemini_candidate_texts(response)
    IN IF texts # <<>> THEN texts[1] ELSE response.text

\* ... finish_reason: the first one that is not None (lines 98-99)
gemini_finish_reason(response) ==
    LET hits == {i \in 1..Len(response.candidates) :
                   response.candidates[i].finish_reason # NoneV}
    IN IF hits = {} THEN NoneV
       ELSE response.candidates[CHOOSE i \in hits : \A j \in hits : i <= j].finish_reason

\* gemini_parsed_dict that falls back to an empty dict on a decode error
gemini_parsed_dict_empty_on_error(raw_text) ==
    IF Truthy(raw_text)
    THEN LET r == json_loads(raw_text.s) IN IF r.ok THEN r.value ELSE EmptyDict
    ELSE NoneV

\* lines 111-126: json.loads of a non-empty raw text; a decode error leaves
\* parsed_dict = None
gemini_parsed_dict(raw_text) ==
    IF Truthy(raw_text)
    THEN LET r == json_loads(raw_text.s) IN IF r.ok THEN r.value ELSE NoneV
    ELSE NoneV

\* gemini_missing_message that knows the spelling MAXTOKENS only
gemini_missing_message_one_spelling(stage, finish_reason) ==
    "Gemini structured output missing parsed payload for " \o stage
      \o (IF Truthy(finish_reason)
          THEN " (finish_reason: " \o PyStr(finish_reason) \o ")"
                 \o (IF PyUpper(PyStr(finish_reason)) \in {"MAXTOKENS"}
                     THEN MaxTokensNote
                     ELSE IF PyUpper(PyStr(finish_reason)) = "SAFETY"
                     THEN SafetyNote ELSE "")
          ELSE "")

\* lines 136-143: the MissingPayload message
gemini_missing_message(stage, finish_reason) ==
    "Gemini structured output missing parsed payload for " \o stage
      \o (IF Truthy(finish_reason)
          THEN " (finish_reason: " \o PyStr(finish_reason) \o ")"
                 \o (IF PyUpper(PyStr(finish_reason)) \in {"MAX_TOKENS", "MAXTOKENS"}
                     THEN MaxTokensNote
                     ELSE IF PyUpper(PyStr(finish_reason)) = "SAFETY"
                     THEN SafetyNote ELSE "")
          ELSE "")

\* the request of client.models.generate_content (lines 61-73)
gemini_request(self, system, prompt_parts, schema) ==
    [vendor |-> "gemini", model |-> self.model, contents |-> prompt_parts,
     config |-> [base |-> _base_config(self, system),
                 response_mime_type |-> "application/json",
                 response_schema |-> GeminiDescriptors[schema]]]

\* gemini_after_call whose ValidationFailed error drops the rejected payload
gemini_after_call_drops_payload(schema, stage, response) ==
    LET candidate_texts == ListV(gemini_candidate_texts(response))
        raw_text == gemini_raw_text(response)
        finish_reason == gemini_finish_reason(response)
        parsed_dict == gemini_parsed_dict(raw_text)
        usage == make_json_safe(response.usage_metadata)
        v == model_validate(schema, parsed_dict)
    IN IF parsed_dict = NoneV
       THEN Raised(StructuredCallError(
                gemini_missing_message(stage, finish_reason), raw_text, NoneV,
                DictV([candidates |-> make_json_safe(candidate_texts),
                       usage |-> usage,
                       finish_reason |-> finish_reason])))
       ELSE IF ~v.ok
       THEN Raised(StructuredCallError(
                "Gemini structured output failed validation for " \o schema \o ": "
                  \o ToString(Cardinality(v.errs)) \o " validation errors",
                raw_text, NoneV,
                DictV([candidates |-> make_json_safe(candidate_texts),
                       usage |-> usage])))
       ELSE Returned(v.value,
                     DictV([raw_text |-> raw_text,
                            parsed_payload |-> parsed_dict,
                            candidates |-> make_json_safe(candidate_texts),
                            usage |-> usage]))

\* gemini_after_call that takes every falsy decoded value for a missing payload
gemini_after_call_falsy_is_missing(schema, stage, response) ==
    LET candidate_texts == ListV(gemini_candidate_texts(response))
        raw_text == gemini_raw_text(response)
        finish_reason == gemini_finish_reason(response)
        parsed_dict == gemini_parsed_dict(raw_text)
        usage == make_json_safe(response.usage_metadata)
        v == model_validate(schema, parsed_dict)
    IN IF ~Truthy(parsed_dict)
       THEN Raised(StructuredCallError(
                gemini_missing_message(stage, finish_reason), raw_text, NoneV,
                DictV([candidates |-> make_json_safe(candidate_texts),
                       usage |-> usage,
                       finish_reason |-> finish_reason])))
       ELSE IF ~v.ok
       THEN Raised(StructuredCallError(
                "Gemini structured output failed validation for " \o schema \o ": "
                  \o ToString(Cardinality(v.errs)) \o " validation errors",
                raw_text, parsed_dict,
                DictV([candidates |-> make_json_safe(candidate_texts),
                       usage |-> usage])))
       ELSE Returned(v.value,
                     DictV([raw_text |-> raw_text,
                            parsed_payload |-> parsed_dict,
                            candidates |-> make_json_safe(candidate_texts),
                            usage |-> usage]))

\* GeminiStructuredAgent._call, after the vendor call returned `response`
\* (lines 82-174)
gemini_after_call(schema, stage, response) ==
    LET candidate_texts == ListV(gemini_candidate_texts(response))
        raw_text == gemini_raw_text(response)
        finish_reason == gemini_finish_reason(response)
        parsed_dict == gemini_parsed_dict(raw_text)
        usage == make_json_safe(response.usage_metadata)
        v == model_validate(schema, parsed_dict)
    IN IF parsed_dict = NoneV
       THEN Raised(StructuredCallError(
                gemini_missing_message(stage, finish_reason), raw_text, NoneV,
                DictV([candidates |-> make_json_safe(candidate_texts),
                       usage |-> usage,
                       finish_reason |-> finish_reason])))
       ELSE IF ~v.ok
       THEN Raised(StructuredCallError(
                "Gemini structured output failed validation for " \o schema \o ": "
                  \o ToString(Cardinality(v.errs)) \o " validation errors",
                raw_text, parsed_dict,
                DictV([candidates |-> make_json_safe(candidate_texts),
                       usage |-> usage])))
       ELSE Returned(v.value,
                     DictV([raw_text |-> raw_text,
                            parsed_payload |-> parsed_dict,
                            candidates |-> make_json_safe(candidate_texts),
                            usage |-> usage]))

\* the hint lookups of _base_config (lines 45-46): the key that is missing
\* from its table, "" when both lookups succeed
gemini_missing_hint(self) ==
    IF self.verbosity \notin DOMAIN VERBOSITY_HINT THEN self.verbosity
    ELSE IF self.effort \notin DOMAIN EFFORT_HINT THEN self.effort
    ELSE ""

\* gemini_call with a retry: a failed vendor call is issued a second time
gemini_call_retrying(self, system, prompt_parts, schema, stage, response) ==
    IF gemini_missing_hint(self) # ""
    THEN [requests |-> <<>>,
          out |-> Raised(OtherError("KeyError", gemini_missing_hint(self)))]
    ELSE IF response.raised
    THEN [requests |-> <<gemini_request(self, system, prompt_parts, schema),
                         gemini_request(self, system, prompt_parts, schema)>>,
          out |-> Raised(StructuredCallError(
                      "Gemini API call failed at " \o stage \o ": " \o response.error,
                      NoneV, NoneV, NoneV))]
    ELSE [requests |-> <<gemini_request(self, system, prompt_parts, schema)>>,
          out |-> gemini_after_call(schema, stage, response)]

\* GeminiStructuredAgent._call(system, prompt_parts, schema, stage): the
\* vendor requests it issues and its outcome, given what the vendor answers
gemini_call(self, system, prompt_parts, schema, stage, response) ==
    IF gemini_missing_hint(self) # ""
    THEN [requests |-> <<>>,
          out |-> Raised(OtherError("KeyError", gemini_missing_hint(self)))]
    ELSE [requests |-> <<gemini_request(self, system, prompt_parts, schema)>>,
          out |-> IF response.raised
                  THEN Raised(StructuredCallError(
                           "Gemini API call failed at " \o stage \o ": " \o response.error,
                           NoneV, NoneV, NoneV))
                  ELSE gemini_after_call(schema, stage, response)]

\* GeminiStructuredAgent.analyze(system, prompt_text, image_bytes)
gemini_analyze(self, system, prompt_text, image_bytes, response) ==
    LET parts == IF Truthy(image_bytes)
                 THEN <<StrV(prompt_text), [t |-> "image", data |-> image_bytes]>>
                 ELSE <<StrV(prompt_text)>>
    IN gemini_call(self, system, parts, "AnalysisResult", "analysis", response)

\* ------------------------------------------------------------------------
\* OpenAI adapter (src/llm/openai_client.py)
\* ------------------------------------------------------------------------

\* OpenAIStructuredAgent(model, verbosity, effort)
OpenAIStructuredAgent(model, verbosity, effort) ==
    [vendor |-> "openai", model |-> model, verbosity |-> verbosity, effort |-> effort]

\* api_params that carry the two native parameters for every model
openai_request_always_native(self, system, user_content, schema) ==
    [vendor |-> "openai", model |-> self.model,
     messages |-> <<[role |-> "system", content |-> StrV(system)],
                    [role |-> "user", content |-> ListV(user_content)]>>,
     response_format |-> schema,
     reasoning_effort |-> self.effort, verbosity |-> self.verbosity]

\* api_params (lines 36-51)
openai_request(self, system, user_content, schema) ==
    LET messages == <<[role |-> "system", content |-> StrV(system)],
                      [role |-> "user", content |-> ListV(user_content)]>>
    IN IF StartsWith(self.model, "gpt-5")
       THEN [vendor |-> "openai", model |-> self.model, messages |-> messages,
             response_format |-> schema,
             reasoning_effort |-> self.effort, verbosity |-> self.verbosity]
       ELSE [vendor |-> "openai", model |-> self.model, messages |-> messages,
             response_format |-> schema]

\* completion.model_dump(): the completion as nested dicts
completion_dump(completion) ==
    DictV([id |-> StrV(completion.id),
           choices |-> ListV([i \in 1..Len(completion.choices) |->
               DictV([index |-> IntV(i - 1),
                      message |-> DictV(
                          [content |-> completion.choices[i].message.content,
                           parsed |-> model_dump(completion.choices[i].message.parsed)])])])])

\* openai_after_call whose MissingPayload error drops the response dump
openai_after_call_drops_debug(stage, completion) ==
    IF completion.choices = <<>>
    THEN Raised(OtherError("IndexError", "list index out of range"))
    ELSE LET message == completion.choices[1].message
             parsed == message.parsed
             raw_text == message.content
             response_debug == IF completion.has_model_dump
                               THEN make_json_safe(completion_dump(completion))
                               ELSE NoneV
         IN IF parsed = NoneV
            THEN Raised(StructuredCallError(
                     "OpenAI structured output missing parsed payload for " \o stage,
                     raw_text, NoneV, NoneV))
            ELSE Returned(parsed,
                          DictV([raw_text |-> raw_text,
                                 parsed_payload |-> make_json_safe(model_dump(parsed)),
                                 response |-> response_debug]))

\* OpenAIStructuredAgent._call, after the vendor call returned `completion`
\* (lines 63-89)
openai_after_call(stage, completion) ==
    IF completion.choices = <<>>
    THEN Raised(OtherError("IndexError", "list index out of range"))
    ELSE LET message == completion.choices[1].message
             parsed == message.parsed
             raw_text == message.content
             response_debug == IF completion.has_model_dump
                               THEN make_json_safe(completion_dump(completion))
                               ELSE NoneV
         IN IF parsed = NoneV
            THEN Raised(StructuredCallError(
                     "OpenAI structured output missing parsed payload for " \o stage,
                     raw_text, NoneV, response_debug))
            ELSE Returned(parsed,
                          DictV([raw_text |-> raw_text,
                                 parsed_payload |-> make_json_safe(model_dump(parsed)),
                                 response |-> response_debug]))

\* OpenAIStructuredAgent._call(system, user_content, schema, stage)
openai_call(self, system, user_content, schema, stage, response) ==
    [requests |-> <<openai_request(self, system, user_content, schema)>>,
     out |-> IF response.raised
             THEN Raised(StructuredCallError(
                      "OpenAI API call failed at " \o stage \o ": " \o response.error,
                      NoneV, NoneV, NoneV))
             ELSE openai_after_call(stage, response)]

\* OpenAIStructuredAgent.analyze(system, prompt_text, image_b64)
openai_analyze(self, system, prompt_text, image_b64, response) ==
    LET text == DictV([type |-> StrV("text"), text |-> StrV(prompt_text)])
        image == DictV([type |-> StrV("image_url"),
                        image_url |-> DictV([url |-> StrV("data:image/png;base64,"
                                                          \o image_b64.s)])])
        content == IF Truthy(image_b64) THEN <<image, text>> ELSE <<text>>
    IN openai_call(self, system, content, "AnalysisResult", "analysis", response)

\* ------------------------------------------------------------------------
\* Pipeline (src/llm/pipeline.py)
\* ------------------------------------------------------------------------

\* pipeline_artifacts that stores the payload as received instead of the
\* re-serialized result
pipeline_artifacts_as_received(system_prompt, analysis_prompt, analysis, analysis_debug) ==
    DictV([system_prompt |-> StrV(system_prompt),
           analysis_prompt |-> StrV(analysis_prompt),
           analysis_raw |-> analysis_debug.d.parsed_payload,
           analysis_debug |-> make_json_safe(analysis_debug)])

\* the artifact mapping of a successful run (lines 52-57)
pipeline_artifacts(system_prompt, analysis_prompt, analysis, analysis_debug) ==
    DictV([system_prompt |-> StrV(system_prompt),
           analysis_prompt |-> StrV(analysis_prompt),
           analysis_raw |-> model_dump(analysis),
           analysis_debug |-> make_json_safe(analysis_debug)])

\* pipeline_on_error that wraps the adapter's exception in a new one
pipeline_on_error_wrapping(adapter_out) ==
    Raised(StructuredCallError("analysis failed: " \o adapter_out.exc.message,
                               NoneV, NoneV, NoneV))

\* what run_structured_pipeline does with an exception of the adapter: there
\* is no try/except around the adapter call, the exception leaves as it is
pipeline_on_error(adapter_out) == adapter_out

\* a dispatch that takes every vendor name but "OpenAI" for Gemini
pipeline_adapter_openai_by_name(r) ==
    IF r.vendor = "OpenAI"
    THEN OpenAIStructuredAgent(r.model, r.verbosity, r.effort)
    ELSE GeminiStructuredAgent(r.model, r.verbosity, r.effort)

\* lines 41-42, 46-47: the adapter constructed for the vendor name
pipeline_adapter(r) ==
    IF r.vendor = "Google Gemini"
    THEN GeminiStructuredAgent(r.model, r.verbosity, r.effort)
    ELSE OpenAIStructuredAgent(r.model, r.verbosity, r.effort)

\* lines 36-38: the system prompt, the custom one if it is truthy
pipeline_system_prompt(r) ==
    IF Truthy(r.custom_system_prompt) THEN r.custom_system_prompt.s ELSE build_system_prompt

\* lines 42-49: the adapter of the chosen vendor and its analyze call, given
\* what the vendor answers
pipeline_analyze(r, system, prompt, answer) ==
    IF pipeline_adapter(r).vendor = "gemini"
    THEN gemini_analyze(pipeline_adapter(r), system, prompt, r.image.bytes, answer)
    ELSE openai_analyze(pipeline_adapter(r), system, prompt, r.image.b64, answer)

\* lines 52-58: the result built from what the adapter call a gave, or its
\* exception leaving the function
pipeline_result(system, prompt, a) ==
    [requests |-> a.requests,
     out |-> IF a.out.status = "returned"
             THEN Returned(a.out.value,
                           pipeline_artifacts(system, prompt, a.out.value, a.out.debug))
             ELSE pipeline_on_error(a.out)]

\* lines 40-58, the two prompts built
pipeline_with_prompts(r, system, prompt, answer) ==
    pipeline_result(system, prompt, pipeline_analyze(r, system, prompt, answer))

\* run_structured_pipeline(...) as a whole, given what the vendor answers:
\* the requests it issues and its outcome
run_structured_pipeline(r, answer) ==
    pipeline_with_prompts(r, pipeline_system_prompt(r),
                          build_analysis_prompt(r.html, r.css_bundle, r.extra_instruction),
                          answer)

\* ------------------------------------------------------------------------
\* Inputs
\* ------------------------------------------------------------------------

\* the screenshot as app.py hands it over (lines 180-182, 200-201): always
\* base64, the raw bytes only for the Gemini vendor; a run without image for
\* the other vendors
Images(vendor) ==
    IF vendor = "Google Gemini"
    THEN {[bytes |-> [t |-> "bytes", repr |-> "PNG"], b64 |-> StrV("iVBORw0KGgo=")]}
    ELSE {[bytes |-> NoneV, b64 |-> StrV("iVBORw0KGgo=")],
          [bytes |-> NoneV, b64 |-> StrV("")]}

\* the arguments of run_structured_pipeline: the vendor names and models of
\* the configuration surface (app.py lines 54-116), and one vendor name and
\* one model outside it
Requests ==
    {r \in [vendor : {"Google Gemini", "OpenAI", "Anthropic"},
            model : {"gemini-2.5-flash", "gpt-5-mini", "gpt-4o"},
            verbosity : {"low", "medium", "high"},
            effort : {"minimal", "low", "medium", "high"},
            custom_system_prompt : {NoneV, StrV("genre prompt")},
            html : {"<html><body><h1>Hi</h1></body></html>"},
            css_bundle : {""},
            extra_instruction : {"mobile first"},
            image : Images("Google Gemini") \cup Images("OpenAI")] :
        /\ (r.vendor = "Google Gemini") <=> (r.model = "gemini-2.5-flash")
        /\ r.image \in Images(r.vendor)}

FinishReasons == {NoneV, StrV("STOP"), StrV("MAX_TOKENS"), StrV("SAFETY")}

\* candidate.text
CandidateTexts == {NoneV, StrV(""), StrV(TextTruncated), StrV(TextValid), StrV(TextUnknownField)}

\* response.text
ResponseTexts == {NoneV, StrV(TextNull), StrV(TextEmptyObject), StrV(TextValid)}

\* response.usage_metadata
UsageMetadata == {ObjV([total_token_count |-> IntV(42)])}

\* what client.models.generate_content can answer: an exception or a response
GeminiResponses ==
    {[raised |-> TRUE, error |-> "429 quota exceeded"]}
    \cup [raised : {FALSE},
          candidates : SeqsUpTo([text : CandidateTexts, finish_reason : FinishReasons],
                                MaxCandidates),
          text : ResponseTexts,
          usage_metadata : UsageMetadata]

\* the typed object the OpenAI SDK exposes as message.parsed
ParsedObjects == {model_validate("AnalysisResult", json_loads(TextValid).value).value}

\* what client.beta.chat.completions.parse can answer: an exception or a
\* completion, which is a pydantic model of the SDK and so has model_dump
OpenAIResponses ==
    {[raised |-> TRUE, error |-> "401 invalid api key"]}
    \cup [raised : {FALSE},
          id : {"chatcmpl-1"},
          choices : SeqsUpTo([message : [parsed : {NoneV} \cup ParsedObjects,
                                         content : {NoneV, StrV(TextValid),
                                                    StrV(TextTruncated)}]],
                             MaxChoices),
          has_model_dump : {TRUE}]

\* ------------------------------------------------------------------------
\* State
\* ------------------------------------------------------------------------

VARIABLES
    req,              \* the arguments of the run_structured_pipeline invocation
    pc,               \* its position: "start", "gemini", "openai", "adapter_done", "done"
    system_prompt,    \* local of run_structured_pipeline
    analysis_prompt,  \* local of run_structured_pipeline
    agent,            \* the adapter instance it constructed
    response,         \* what the vendor answered to the adapter's call
    vendor_requests,  \* the requests issued to a vendor SDK, in order
    adapter_out,      \* outcome of agent.analyze
    pipeline_out,     \* outcome of run_structured_pipeline
    sc_cls,           \* schema decoding: the schema
    sc_payload,       \* schema decoding: the payload handed to model_validate
    sc_out,           \* schema decoding: the outcome of model_validate
    sc_round,         \* schema decoding: the instance dumped and validated again
    clip,             \* a _clip_for_prompt call: its arguments and what it returned
    js,               \* a make_json_safe call: its argument, the result, the result's result
    strip,            \* a _strip_unsupported_keys call: its argument and what it returned
    app,              \* the runs of app.py: position, run log, log files, display
    conc,             \* two run_structured_pipeline invocations in progress at once
    rl                \* RunLogger instances on one run directory and its log file

vars == <<req, pc, system_prompt, analysis_prompt, agent, response, vendor_requests,
          adapter_out, pipeline_out, sc_cls, sc_payload, sc_out, sc_round,
          clip, js, strip, app, conc, rl>>

pipeline_vars == <<req, pc, system_prompt, analysis_prompt, agent, response,
                   vendor_requests, adapter_out, pipeline_out>>

schema_vars == <<sc_cls, sc_payload, sc_out, sc_round>>

\* the variables a pipeline step leaves alone
beside_pipeline == <<schema_vars, clip, js, strip, app, conc, rl>>

\* the variables a schema step leaves alone
beside_schema == <<pipeline_vars, clip, js, strip, app, conc, rl>>

\* the variables a _clip_for_prompt step leaves alone
beside_clip == <<pipeline_vars, schema_vars, js, strip, app, conc, rl>>

\* the variables a make_json_safe step leaves alone
beside_js == <<pipeline_vars, schema_vars, clip, strip, app, conc, rl>>

\* the variables a _strip_unsupported_keys step leaves alone
beside_strip == <<pipeline_vars, schema_vars, clip, js, app, conc, rl>>

\* the variables a step of app.py leaves alone
beside_app == <<pipeline_vars, schema_vars, clip, js, strip, conc, rl>>

\* the variables a step of two concurrent invocations leaves alone
beside_conc == <<pipeline_vars, schema_vars, clip, js, strip, app, rl>>

Pending == [status |-> "pending"]

NoResponse == [raised |-> FALSE, absent |-> TRUE]

SchemaIdle ==
    /\ sc_cls = "AnalysisResult"
    /\ sc_payload = NoneV
    /\ sc_out = Pending
    /\ sc_round = Pending

\* no _clip_for_prompt call under study
ClipIdle == clip = Pending

\* no make_json_safe call under study
JsonIdle == js = Pending

\* no _strip_unsupported_keys call under study
StripIdle == strip = Pending

\* app.py not running
AppIdle == app = Pending

\* no concurrent invocations
ConcIdle == conc = Pending

\* no RunLogger under study
LoggerIdle == rl = Pending

\* the variables a RunLogger step leaves alone
beside_logger == <<pipeline_vars, schema_vars, clip, js, strip, app, conc>>

\* no run_structured_pipeline invocation in progress
PipelineIdle ==
    /\ req = CHOOSE r \in Requests : TRUE
    /\ pc = "idle"
    /\ system_prompt = ""
    /\ analysis_prompt = ""
    /\ agent = NoneV
    /\ response = NoResponse
    /\ vendor_requests = <<>>
    /\ adapter_out = Pending
    /\ pipeline_out = Pending

Init ==
    /\ req \in Requests
    /\ pc = "start"
    /\ system_prompt = ""
    /\ analysis_prompt = ""
    /\ agent = NoneV
    /\ response = NoResponse
    /\ vendor_requests = <<>>
    /\ adapter_out = Pending
    /\ pipeline_out = Pending
    /\ SchemaIdle
    /\ LoggerIdle
    /\ ClipIdle /\ JsonIdle /\ StripIdle /\ AppIdle /\ ConcIdle

\* run_structured_pipeline, lines 36-47: the prompts and the adapter
PipelineStart ==
    /\ pc = "start"
    /\ system_prompt' = IF Truthy(req.custom_system_prompt)
                        THEN req.custom_system_prompt.s ELSE build_system_prompt
    /\ analysis_prompt' = build_analysis_prompt(req.html, req.css_bundle,
                                                req.extra_instruction)
    /\ agent' = pipeline_adapter(req)
    /\ pc' = pipeline_adapter(req).vendor
    /\ UNCHANGED <<req, response, vendor_requests, adapter_out, pipeline_out>>
    /\ UNCHANGED beside_pipeline

\* agent.analyze of the Gemini adapter (pipeline.py lines 42-44)
GeminiAnalyze ==
    /\ pc = "gemini"
    /\ \E answer \in IF gemini_missing_hint(agent) = "" THEN GeminiResponses
                     ELSE {NoResponse} :
         LET r == gemini_analyze(agent, system_prompt, analysis_prompt,
                                 req.image.bytes, answer)
         IN /\ response' = answer
            /\ vendor_requests' = vendor_requests \o r.requests
            /\ adapter_out' = r.out
    /\ pc' = "adapter_done"
    /\ UNCHANGED <<req, system_prompt, analysis_prompt, agent, pipeline_out>>
    /\ UNCHANGED beside_pipeline

\* agent.analyze of the OpenAI adapter (pipeline.py lines 46-49)
OpenAIAnalyze ==
    /\ pc = "openai"
    /\ \E answer \in OpenAIResponses :
         LET r == openai_analyze(agent, system_prompt, analysis_prompt,
                                 req.image.b64, answer)
         IN /\ response' = answer
            /\ vendor_requests' = vendor_requests \o r.requests
            /\ adapter_out' = r.out
    /\ pc' = "adapter_done"
    /\ UNCHANGED <<req, system_prompt, analysis_prompt, agent, pipeline_out>>
    /\ UNCHANGED beside_pipeline

\* run_structured_pipeline, lines 52-58: the artifacts and the return
PipelineReturn ==
    /\ pc = "adapter_done"
    /\ adapter_out.status = "returned"
    /\ pipeline_out' = Returned(adapter_out.value,
                                pipeline_artifacts(system_prompt, analysis_prompt,
                                                   adapter_out.value, adapter_out.debug))
    /\ pc' = "done"
    /\ UNCHANGED <<req, system_prompt, analysis_prompt, agent, response,
                   vendor_requests, adapter_out>>
    /\ UNCHANGED beside_pipeline

\* run_structured_pipeline when agent.analyze raised: the exception leaves
PipelineRaise ==
    /\ pc = "adapter_done"
    /\ adapter_out.status = "raised"
    /\ pipeline_out' = pipeline_on_error(adapter_out)
    /\ pc' = "done"
    /\ UNCHANGED <<req, system_prompt, analysis_prompt, agent, response,
                   vendor_requests, adapter_out>>
    /\ UNCHANGED beside_pipeline

Next ==
    \/ PipelineStart
    \/ GeminiAnalyze
    \/ OpenAIAnalyze
    \/ PipelineReturn
    \/ PipelineRaise

Spec == Init /\ [][Next]_vars

\* ------------------------------------------------------------------------
\* Schema decoding on its own: model_validate applied to generated payloads
\* ------------------------------------------------------------------------

\* a key that no schema declares
UnknownKey == "unknown"

RECURSIVE Payloads(_, _)
\* the values tried for a field: at the top level of a payload (full) right
\* and wrong types, inside a nested item only right ones
FieldValues(spec, full) ==
    CASE spec.kind = "str" ->
           IF full THEN {StrV("x"), IntV(1)} ELSE {StrV("x")}
      [] spec.kind = "optstr" ->
           IF full THEN {StrV("x"), NoneV, IntV(1)} ELSE {}
      [] spec.kind = "severity" ->
           IF full THEN {StrV("low"), StrV("urgent")} ELSE {StrV("high")}
      [] spec.kind = "list" ->
           {ListV(items) : items \in SeqsUpTo(Payloads(spec.item, FALSE), MaxItems)}
             \cup (IF full THEN {StrV("x")} ELSE {})

\* payloads for schema cls: dicts over the declared fields and one undeclared
\* key; a nested item (not full) has every required field
Payloads(cls, full) ==
    LET schema == SchemaOf(cls)
        keys == DOMAIN schema \cup {UnknownKey}
        vals == [k \in keys |-> IF k = UnknownKey THEN {StrV("x")}
                                ELSE FieldValues(schema[k], full)]
        required == {k \in DOMAIN schema : schema[k].required}
    IN {DictV(d) : d \in {e \in DictsOver(keys, vals) : full \/ required \subseteq DOMAIN e}}
         \cup (IF full THEN {ListV(<<>>), NoneV} ELSE {})

SchemaInit ==
    /\ PipelineIdle
    /\ LoggerIdle
    /\ sc_cls \in Schemas
    /\ sc_payload \in Payloads(sc_cls, TRUE)
    /\ sc_out = Pending
    /\ sc_round = Pending
    /\ ClipIdle /\ JsonIdle /\ StripIdle /\ AppIdle /\ ConcIdle

\* schema.model_validate(payload)
Decode ==
    /\ sc_out = Pending
    /\ LET r == model_validate(sc_cls, sc_payload)
       IN sc_out' = IF r.ok THEN [status |-> "returned", value |-> r.value]
                    ELSE [status |-> "raised", errs |-> r.errs]
    /\ UNCHANGED <<sc_cls, sc_payload, sc_round>>
    /\ UNCHANGED beside_schema

\* instance.model_dump() of a decoded instance, and model_validate of the dump
RoundTrip ==
    /\ sc_out.status = "returned"
    /\ sc_round = Pending
    /\ LET encoded == model_dump(sc_out.value)
       IN sc_round' = [status |-> "done", encoded |-> encoded,
                       decoded |-> model_validate(sc_cls, encoded)]
    /\ UNCHANGED <<sc_cls, sc_payload, sc_out>>
    /\ UNCHANGED beside_schema

SchemaNext == Decode \/ RoundTrip

SchemaSpec == SchemaInit /\ [][SchemaNext]_vars

\* ------------------------------------------------------------------------
\* Prompt truncation (src/llm/prompts.py, _clip_for_prompt)
\* ------------------------------------------------------------------------

\* how far around a budget the text lengths range
ClipSpread == 10

\* the material the texts are cut from
ClipPatterns == {"<p>ab</p>", "h1{c:0}\n"}

RECURSIVE Repeated(_, _)
\* pattern repeated 2^k times
Repeated(pattern, k) ==
    IF k = 0 THEN pattern ELSE LET half == Repeated(pattern, k - 1) IN half \o half

\* a text of n characters (n <= 2^12 * Len(pattern))
TextOf(pattern, n) == SubSeq(Repeated(pattern, 12), 1, n)

\* the two calls build_analysis_prompt makes: the budget and the comment style
ClipCalls == {[max_chars |-> MAX_HTML_CHARS, comment_style |-> "html"],
              [max_chars |-> MAX_CSS_CHARS, comment_style |-> "css"]}

\* text lengths: empty, around the budget, and one and a half budgets
ClipLengths(max_chars) ==
    {0, max_chars + max_chars \div 2}
      \cup {max_chars + k : k \in (0 - ClipSpread)..ClipSpread}

ClipInit ==
    /\ PipelineIdle
    /\ LoggerIdle
    /\ SchemaIdle
    /\ JsonIdle /\ StripIdle /\ AppIdle /\ ConcIdle
    /\ \E call \in ClipCalls, pattern \in ClipPatterns :
         \E n \in ClipLengths(call.max_chars) :
           clip = [text |-> TextOf(pattern, n), max_chars |-> call.max_chars,
                   comment_style |-> call.comment_style, out |-> Pending]

\* _clip_for_prompt(text, max_chars=..., comment_style=...)
ClipForPrompt ==
    /\ clip.out = Pending
    /\ clip' = [clip EXCEPT !.out =
                   [status |-> "returned",
                    value |-> _clip_for_prompt(clip.text, clip.max_chars,
                                               clip.comment_style)]]
    /\ UNCHANGED beside_clip

ClipNext == ClipForPrompt

ClipSpec == ClipInit /\ [][ClipNext]_vars

\* ------------------------------------------------------------------------
\* JSON-safe conversion (src/utils/json_tools.py, make_json_safe)
\* ------------------------------------------------------------------------

\* the longest list, tuple, set or dict among the inner values
JsonLen == 2

\* primitives
JsonAtoms == {NoneV, StrV("a"), IntV(1), BoolV(TRUE), FloatV("1.5")}

\* dict keys: strings and an int whose str() is one of the strings
JsonKeys == {StrV("a"), StrV("1"), IntV(1)}

\* sequences without a repeated item
DistinctSeqs(S, n) ==
    {xs \in SeqsUpTo(S, n) : \A i, j \in 1..Len(xs) : i # j => xs[i] # xs[j]}

\* the lists, tuples, sets and dicts of at most n items over vals; a set
\* holds hashable items, none twice (1 and True are one item), and a dict
\* has no key twice
ContainersOver(vals, n) ==
    {ListV(xs) : xs \in SeqsUpTo(vals, n)}
      \cup {TupleV(xs) : xs \in SeqsUpTo(vals, n)}
      \cup {SetV(xs) : xs \in DistinctSeqs({x \in vals : x.t \in {"none", "str", "int", "float", "tuple"}}, n)}
      \cup {MappingV([i \in 1..Len(p[1]) |-> [k |-> p[1][i], v |-> p[2][i]]]) :
               p \in {q \in DistinctSeqs(JsonKeys, n) \X SeqsUpTo(vals, n) :
                        Len(q[1]) = Len(q[2])}}

\* objects over the values rets their methods return: every combination of
\* absent, raising and returning extraction methods, with or without __dict__
ObjectsOver(rets) ==
    LET outcomes == {Absent, Raises} \cup {Returning(r) : r \in rets}
    IN {ObjectV(m, d, t, a, w, "<object>") :
          m \in outcomes, d \in {Absent, Raises}, t \in outcomes,
          a \in {Absent} \cup {Returning(r) : r \in rets},
          w \in {Absent} \cup {Returning(r) : r \in rets}}

\* what the extraction methods of the inner objects return
JsonReturns == {DictV([a |-> IntV(1)]), MappingV(<<[k |-> IntV(1), v |-> TupleV(<<StrV("a")>>)]>>)}

\* inner values: primitives, containers of primitives, objects
JsonInner == JsonAtoms \cup ContainersOver(JsonAtoms, JsonLen) \cup ObjectsOver(JsonReturns)

\* the arguments of make_json_safe: inner values, containers of one inner
\* value, objects whose model_dump returns an inner value
JsonValues ==
    JsonInner \cup ContainersOver(JsonInner, 1)
      \cup {ObjectV(Returning(r), Absent, Absent, Absent, Absent, "<object>") : r \in JsonInner}

JsonInit ==
    /\ PipelineIdle
    /\ LoggerIdle
    /\ SchemaIdle
    /\ ClipIdle /\ StripIdle /\ AppIdle /\ ConcIdle
    /\ \E v \in JsonValues : js = [value |-> v, once |-> Pending, twice |-> Pending]

\* make_json_safe(value)
MakeJsonSafe ==
    /\ js.once = Pending
    /\ js' = [js EXCEPT !.once = [status |-> "returned", value |-> make_json_safe(js.value)]]
    /\ UNCHANGED beside_js

\* make_json_safe of what make_json_safe returned
MakeJsonSafeAgain ==
    /\ js.once # Pending
    /\ js.twice = Pending
    /\ js' = [js EXCEPT !.twice = [status |-> "returned",
                                    value |-> make_json_safe(js.once.value)]]
    /\ UNCHANGED beside_js

JsonNext == MakeJsonSafe \/ MakeJsonSafeAgain

JsonSpec == JsonInit /\ [][JsonNext]_vars

\* ------------------------------------------------------------------------
\* Schema descriptor for Gemini, as a run of its own
\* ------------------------------------------------------------------------

StripInit ==
    /\ PipelineIdle
    /\ LoggerIdle
    /\ SchemaIdle
    /\ ClipIdle /\ JsonIdle /\ AppIdle /\ ConcIdle
    /\ \E cls \in Schemas, deco \in Decorations :
         strip = [cls |-> cls, deco |-> deco, source |-> model_json_schema(cls, deco),
                  out |-> Pending]

\* _strip_unsupported_keys(raw)
StripUnsupportedKeys ==
    /\ strip.out = Pending
    /\ strip' = [strip EXCEPT !.out = [status |-> "returned",
                                        value |-> _strip_unsupported_keys(strip.source)]]
    /\ UNCHANGED beside_strip

StripNext == StripUnsupportedKeys

StripSpec == StripInit /\ [][StripNext]_vars

\* ------------------------------------------------------------------------
\* The application run (src/app.py lines 137-300) and its run log
\* (src/utils/run_logger.py, src/utils/io.py)
\* ------------------------------------------------------------------------

\* the browser sessions Streamlit serves, each running the script once
AppSessions == {"s1", "s2"}

\* time.strftime("%Y%m%d-%H%M%S") at the start of a run
Timestamps == {"20250101-000000", "20250101-000001"}

AppUrl == "https://example.com"

\* slugify(url)
slugify(url) == IF url = "https://example.com" THEN "https-example-com" ELSE "x"

\* make_run_dir(url), the clock reading ts
make_run_dir(ts, url) == "runs/" \o ts \o "_" \o slugify(url)

RunDirs == {make_run_dir(ts, AppUrl) : ts \in Timestamps}

NoFile == [exists |-> FALSE]

\* a log file json.load cannot read
UnreadableFile == [exists |-> TRUE, kind |-> "unreadable"]

\* a log file holding a JSON document that is not an object
ArrayFile == [exists |-> TRUE, kind |-> "array", data |-> ListV(<<>>)]

\* a RunLogger.__init__ in which the new fields override the existing ones
RunLogger_init_new_fields_win(file, url, now) ==
    LET fresh == [url |-> StrV(url), created_at |-> StrV(now), steps |-> <<>>]
    IN IF file.exists /\ file.kind = "object"
       THEN [k \in DOMAIN fresh \cup DOMAIN file.data |->
               IF k \in DOMAIN fresh \ {"steps"} THEN fresh[k]
               ELSE IF k \in DOMAIN file.data THEN file.data[k] ELSE fresh[k]]
       ELSE fresh

\* RunLogger.__init__ apart from its _persist (lines 13-27): the fresh
\* record, updated key by key from an existing log that json.load reads as a
\* dict; steps stays the empty list if the log has no such key
RunLogger_init(file, url, now) ==
    LET fresh == [url |-> StrV(url), created_at |-> StrV(now), steps |-> <<>>]
    IN IF file.exists /\ file.kind = "object"
       THEN [k \in DOMAIN fresh \cup DOMAIN file.data |->
               IF k \in DOMAIN file.data THEN file.data[k] ELSE fresh[k]]
       ELSE fresh

\* RunLogger.set_context apart from its _persist: self.data.update(kwargs)
set_context(data, kwargs) ==
    [k \in DOMAIN data \cup DOMAIN kwargs |->
       IF k \in DOMAIN kwargs THEN kwargs[k] ELSE data[k]]

\* an add_step that puts the new entry in front
add_step_in_front(data, name, status, detail) ==
    [data EXCEPT !.steps = <<[step |-> name, status |-> status, detail |-> detail]>> \o @]

\* RunLogger.add_step apart from its _persist (the entry's timestamp left out)
add_step(data, name, status, detail) ==
    [data EXCEPT !.steps = Append(@, [step |-> name, status |-> status, detail |-> detail])]

\* what json.load reads back from what json.dump wrote for a value: tuples
\* come back as lists
RECURSIVE json_value(_)
json_value(v) ==
    CASE v.t \in {"list", "tuple"} ->
           ListV([i \in DOMAIN v.items |-> json_value(v.items[i])])
      [] v.t = "dict" -> DictV([k \in DOMAIN v.d |-> json_value(v.d[k])])
      [] OTHER -> v

\* the document json.dump(self.data) writes (line 51)
json_document(data) ==
    [k \in DOMAIN data |->
       IF k = "steps"
       THEN [i \in DOMAIN data[k] |-> [data[k][i] EXCEPT !.detail = json_value(@)]]
       ELSE json_value(data[k])]

\* RunLogger._persist: the file of the run directory holds the record
persist(files, dir, data) ==
    [files EXCEPT ![dir] = [exists |-> TRUE, kind |-> "object", data |-> json_document(data)]]

\* str(exc)
ExcStr(exc) ==
    IF exc.type = "KeyError" THEN "'" \o exc.message \o "'" ELSE exc.message

\* the choices of the configuration surface the runs are made with: Gemini
\* with an effort that has a hint and with effort "low"
AppRequests ==
    {r \in Requests : /\ r.vendor = "Google Gemini"
                      /\ r.verbosity = "low"
                      /\ r.effort \in {"medium", "low"}
                      /\ r.custom_system_prompt = StrV("genre prompt")}

\* what Gemini may answer to the call of adapter self, if it makes one
FewGeminiAnswers(self) ==
    IF gemini_missing_hint(self) # ""
    THEN {NoResponse}
    ELSE {[raised |-> TRUE, error |-> "503 unavailable"]}
           \cup [raised : {FALSE},
                 candidates : {<<[text |-> StrV(t), finish_reason |-> StrV("MAX_TOKENS")]>> :
                                 t \in {TextTruncated, TextUnknownField, TextValid}},
                 text : {NoneV},
                 usage_metadata : UsageMetadata]

\* what the vendor may answer to a run's call
AppAnswers(r) == FewGeminiAnswers(GeminiStructuredAgent(r.model, r.verbosity, r.effort))

\* what the web gives to requests.get(url) and raise_for_status(): the page
\* with one stylesheet, an HTTP error status, or an exception of the transport
WebAnswers ==
    {[kind |-> "page", html |-> "<html><body><h1>Hi</h1></body></html>",
      css |-> <<"h1{color:red}">>],
     [kind |-> "http_error", error |-> "404 Client Error: Not Found"],
     [kind |-> "exception", error |-> "Connection refused"]}

\* create_placeholder_image(...): the path of the image it saves
PlaceholderPath == "src/capture/../../runs/placeholder.png"

\* the names bound in the module simple_capture (lines 1-8 and its defs):
\* streamlit is not imported, so `st` is not among them
SimpleCaptureGlobals ==
    {"os", "urllib", "Dict", "List", "requests", "BeautifulSoup", "base64",
     "Image", "ImageDraw", "ImageFont", "io", "create_placeholder_image", "fetch_page"}

\* the record the except block returns (lines 108-127) and the page it
\* writes to index.html
fetch_page_fallback(run_dir, e) ==
    [status |-> "returned",
     value |-> [html_path |-> run_dir \o "/index.html",
                css_paths |-> <<>>,
                external_css_text |-> "",
                screenshot_paths |-> [full |-> PlaceholderPath, viewport |-> PlaceholderPath,
                                      slices |-> <<PlaceholderPath>>],
                html_text |-> "<html><body><h1>Error loading page</h1><p>" \o e
                                \o "</p></body></html>",
                css_texts |-> <<>>,
                css_sources |-> <<>>],
     index_html |-> StrV("<html><body><h1>Error loading page</h1><p>" \o e
                           \o "</p></body></html>")]

\* the except block of fetch_page (lines 104-127): its first statement
\* evaluates the name `st`
fetch_page_except(run_dir, e) ==
    IF "st" \in SimpleCaptureGlobals
    THEN fetch_page_fallback(run_dir, e)
    ELSE [status |-> "raised",
          exc |-> OtherError("NameError", "name 'st' is not defined"),
          index_html |-> NoneV]

\* fetch_page(url, run_dir), given what the web answers (lines 40-127)
fetch_page(url, run_dir, web) ==
    IF web.kind = "page"
    THEN [status |-> "returned",
          value |-> [html_path |-> run_dir \o "/index.html",
                     css_paths |-> [i \in DOMAIN web.css |->
                                      run_dir \o "/ext_" \o ToString(i - 1) \o ".css"],
                     external_css_text |-> "\n\n/*--- external css bundle ---*/\n"
                                             \o web.css[1],
                     screenshot_paths |-> [full |-> PlaceholderPath,
                                           viewport |-> PlaceholderPath,
                                           slices |-> <<PlaceholderPath>>],
                     html_text |-> web.html,
                     css_texts |-> web.css,
                     css_sources |-> <<url \o "/style.css">>],
          index_html |-> StrV(web.html)]
    ELSE fetch_page_except(run_dir, web.error)

IdleSession ==
    [pc |-> "idle", dir |-> "", request |-> NoneV, data |-> NoneV, base |-> 0,
     shown |-> <<>>, outcome |-> Pending, web |-> NoneV, fetched |-> Pending]

AppInit ==
    /\ PipelineIdle
    /\ LoggerIdle
    /\ SchemaIdle
    /\ ClipIdle /\ JsonIdle /\ StripIdle /\ ConcIdle
    /\ app = [sess |-> [s \in AppSessions |-> IdleSession],
              files |-> [d \in RunDirs |-> NoFile]]

\* lines 137-150: the run directory, the logger, the context, the first step
AppStart(s) ==
    /\ app.sess[s].pc = "idle"
    /\ \E ts \in Timestamps, r \in AppRequests :
         LET dir == make_run_dir(ts, AppUrl)
             loaded == RunLogger_init(app.files[dir], AppUrl, ts)
             context == [model_vendor |-> StrV(r.vendor), model_name |-> StrV(r.model),
                         verbosity |-> StrV(r.verbosity), effort |-> StrV(r.effort)]
             data == add_step(set_context(loaded, context), "fetch_page", "started",
                              DictV([url |-> StrV(AppUrl)]))
         IN app' = [sess |-> [app.sess EXCEPT ![s] =
                                [pc |-> "fetching", dir |-> dir, request |-> r, data |-> data,
                                 base |-> Len(loaded.steps), shown |-> <<>>,
                                 outcome |-> Pending, web |-> NoneV, fetched |-> Pending]],
                    files |-> persist(app.files, dir, data)]
    /\ UNCHANGED beside_app

\* lines 151-182: fetch_page returns (the step is logged, the screenshot
\* shown) or raises (the run is stopped)
AppFetch(s) ==
    /\ app.sess[s].pc = "fetching"
    /\ \E web \in WebAnswers :
         LET me == app.sess[s]
             art == fetch_page(AppUrl, me.dir, web)
             data == add_step(me.data, "fetch_page", "success",
                              DictV([html_path |-> StrV(art.value.html_path)]))
         IN IF art.status = "returned"
            THEN app' = [sess |-> [app.sess EXCEPT ![s] =
                                     [me EXCEPT !.pc = "calling", !.data = data,
                                                !.web = web, !.fetched = art,
                                                !.shown = Append(@, [kind |-> "image",
                                                                     text |-> "screenshot"])]],
                         files |-> persist(app.files, me.dir, data)]
            ELSE app' = [app EXCEPT !.sess[s].pc = "stopped",
                                    !.sess[s].web = web,
                                    !.sess[s].fetched = art,
                                    !.sess[s].shown = Append(@, [kind |-> "status",
                                                                 text |-> "fetch failed: "
                                                                   \o ExcStr(art.exc)])]
    /\ UNCHANGED beside_app

\* an except block that shows and logs the error but lacks st.stop()
on_pipeline_error_without_stop(me, exc) ==
    [me EXCEPT
       !.pc = "render",
       !.outcome = Raised(exc),
       !.shown = @ \o (IF exc.type = "StructuredCallError"
                       THEN <<[kind |-> "error", text |-> "LLM call error"],
                              [kind |-> "code", text |-> ExcStr(exc)]>>
                       ELSE <<[kind |-> "error",
                               text |-> "unexpected error: " \o ExcStr(exc)]>>),
       !.data = add_step(@, "llm_pipeline", "error", DictV([error |-> StrV(ExcStr(exc))]))]

\* lines 217-225: the two except blocks of the pipeline call
on_pipeline_error(me, exc) ==
    [me EXCEPT
       !.pc = "stopped",
       !.outcome = Raised(exc),
       !.shown = @ \o (IF exc.type = "StructuredCallError"
                       THEN <<[kind |-> "error", text |-> "LLM call error"],
                              [kind |-> "code", text |-> ExcStr(exc)]>>
                       ELSE <<[kind |-> "error",
                               text |-> "unexpected error: " \o ExcStr(exc)]>>),
       !.data = add_step(@, "llm_pipeline", "error", DictV([error |-> StrV(ExcStr(exc))]))]

\* lines 195-225: the pipeline call, its success step or its except blocks
AppPipeline(s) ==
    /\ app.sess[s].pc = "calling"
    /\ \E answer \in AppAnswers(app.sess[s].request) :
         LET me == app.sess[s]
             out == run_structured_pipeline(me.request, answer).out
             after == IF out.status = "returned"
                      THEN [me EXCEPT
                              !.pc = "render",
                              !.outcome = out,
                              !.data = add_step(@, "llm_pipeline", "success",
                                                DictV([vendor |-> StrV(me.request.vendor),
                                                       model |-> StrV(me.request.model)]))]
                      ELSE on_pipeline_error(me, out.exc)
         IN app' = [sess |-> [app.sess EXCEPT ![s] = after],
                    files |-> persist(app.files, me.dir, after.data)]
    /\ UNCHANGED beside_app

\* lines 227-300: the results are rendered and the last step logged
AppRender(s) ==
    /\ app.sess[s].pc = "render"
    /\ LET me == app.sess[s]
           data == add_step(me.data, "display_results", "success",
                            IF me.outcome.status = "returned"
                            THEN DictV([issues_count |->
                                          IntV(Len(me.outcome.value.f.issues.items)),
                                        improvements_count |->
                                          IntV(Len(me.outcome.value.f.improvements.items))])
                            ELSE NoneV)
       IN app' = [sess |-> [app.sess EXCEPT ![s] =
                              [me EXCEPT !.pc = "done", !.data = data,
                                         !.shown = Append(@, [kind |-> "results",
                                                              text |-> "analysis results"])]],
                  files |-> persist(app.files, me.dir, data)]
    /\ UNCHANGED beside_app

AppNext == \E s \in AppSessions : AppStart(s) \/ AppFetch(s) \/ AppPipeline(s) \/ AppRender(s)

AppSpec == AppInit /\ [][AppNext]_vars

\* ------------------------------------------------------------------------
\* Two invocations of run_structured_pipeline in progress at once
\* (src/llm/pipeline.py; Streamlit runs each session's script in a thread)
\* ------------------------------------------------------------------------

ConcProcs == {1, 2}

\* the arguments the two invocations are made with
ConcRequests ==
    {r \in Requests : /\ r.vendor \in {"Google Gemini", "OpenAI"}
                      /\ r.model \in {"gemini-2.5-flash", "gpt-5-mini"}
                      /\ r.verbosity \in {"low", "high"}
                      /\ r.effort \in {"medium", "low"}
                      /\ r.custom_system_prompt = NoneV
                      /\ Truthy(r.image.b64)}

\* what the vendor may answer to the call of adapter self
ConcAnswers(self) ==
    IF self.vendor = "gemini" THEN FewGeminiAnswers(self)
    ELSE {x \in OpenAIResponses :
            x.raised \/ (Len(x.choices) = 1
                           /\ x.choices[1].message.content = StrV(TextValid))}

\* the locals of an invocation
ConcLocals(r) ==
    [req |-> r, pc |-> "start", system_prompt |-> "", analysis_prompt |-> "",
     agent |-> NoneV, response |-> NoResponse, adapter_out |-> Pending,
     pipeline_out |-> Pending]

\* shared by the invocations: the vendors' view of the requests, in order of
\* arrival, and the adapter instances, in order of construction
ConcInit ==
    /\ PipelineIdle
    /\ LoggerIdle
    /\ SchemaIdle
    /\ ClipIdle /\ JsonIdle /\ StripIdle /\ AppIdle
    /\ \E rs \in [ConcProcs -> ConcRequests] :
         conc = [inv |-> [p \in ConcProcs |-> ConcLocals(rs[p])],
                 vendor_log |-> <<>>,
                 constructed |-> <<>>]

\* an adapter kept in a module-level cache under its vendor: the first
\* instance constructed for the vendor serves every later invocation
agent_in_use_cached_by_vendor(own, constructed) ==
    constructed[CHOOSE i \in 1..Len(constructed) :
                  /\ constructed[i].vendor = own.vendor
                  /\ \A j \in 1..(i - 1) : constructed[j].vendor # own.vendor]

\* `agent` in run_structured_pipeline (lines 42-49): the local variable, the
\* instance this invocation constructed
agent_in_use(own, constructed) == own

\* lines 36-47 of invocation p: the prompts and the adapter
ConcStart(p) ==
    /\ conc.inv[p].pc = "start"
    /\ LET me == conc.inv[p]
           r == me.req
           a == pipeline_adapter(r)
       IN conc' = [conc EXCEPT
                     !.inv[p] = [me EXCEPT
                                   !.pc = "analyze",
                                   !.system_prompt = IF Truthy(r.custom_system_prompt)
                                                     THEN r.custom_system_prompt.s
                                                     ELSE build_system_prompt,
                                   !.analysis_prompt =
                                      build_analysis_prompt(r.html, r.css_bundle,
                                                            r.extra_instruction),
                                   !.agent = a],
                     !.constructed = Append(@, a)]
    /\ UNCHANGED beside_conc

\* agent.analyze of invocation p (lines 42-49)
ConcAnalyze(p) ==
    /\ conc.inv[p].pc = "analyze"
    /\ \E answer \in ConcAnswers(agent_in_use(conc.inv[p].agent, conc.constructed)) :
         LET me == conc.inv[p]
             self == agent_in_use(me.agent, conc.constructed)
             r == IF me.req.vendor = "Google Gemini"
                  THEN gemini_analyze(self, me.system_prompt, me.analysis_prompt,
                                      me.req.image.bytes, answer)
                  ELSE openai_analyze(self, me.system_prompt, me.analysis_prompt,
                                      me.req.image.b64, answer)
         IN conc' = [conc EXCEPT
                       !.inv[p] = [me EXCEPT !.pc = "adapter_done",
                                             !.response = answer,
                                             !.adapter_out = r.out],
                       !.vendor_log = @ \o [i \in 1..Len(r.requests) |->
                                              [by |-> p, request |-> r.requests[i]]]]
    /\ UNCHANGED beside_conc

\* lines 52-58 of invocation p, or the exception leaving it
ConcFinish(p) ==
    /\ conc.inv[p].pc = "adapter_done"
    /\ LET me == conc.inv[p]
       IN conc' = [conc EXCEPT
                     !.inv[p] = [me EXCEPT
                                   !.pc = "done",
                                   !.pipeline_out =
                                      IF me.adapter_out.status = "returned"
                                      THEN Returned(me.adapter_out.value,
                                                    pipeline_artifacts(me.system_prompt,
                                                                       me.analysis_prompt,
                                                                       me.adapter_out.value,
                                                                       me.adapter_out.debug))
                                      ELSE pipeline_on_error(me.adapter_out)]]
    /\ UNCHANGED beside_conc

ConcNext == \E p \in ConcProcs : ConcStart(p) \/ ConcAnalyze(p) \/ ConcFinish(p)

ConcSpec == ConcInit /\ [][ConcNext]_vars

\* ------------------------------------------------------------------------
\* The Gemini adapter on responses whose text is any JSON value
\* ------------------------------------------------------------------------

\* raw texts: JSON literals and containers of every kind, and a truncated one
JsonTexts == {TextNull, TextEmptyObject, TextEmptyList, TextNumber, TextString,
              TextFalse, TextValid, TextUnknownField, TextTruncated}

MaxJsonCandidates == 1

\* responses of at most MaxJsonCandidates candidates
GeminiJsonResponses ==
    [raised : {FALSE},
     candidates : SeqsUpTo([text : {NoneV, StrV("")} \cup {StrV(t) : t \in JsonTexts},
                            finish_reason : {NoneV, StrV("STOP"), StrV("MAX_TOKENS")}],
                           MaxJsonCandidates),
     text : {NoneV} \cup {StrV(t) : t \in JsonTexts},
     usage_metadata : UsageMetadata]

\* invocations of the Gemini adapter whose hint lookups succeed
GeminiJsonRequests ==
    {r \in Requests : /\ r.vendor = "Google Gemini"
                      /\ r.verbosity = "low"
                      /\ r.effort = "medium"}

GeminiJsonInit ==
    /\ req \in GeminiJsonRequests
    /\ pc = "start"
    /\ system_prompt = ""
    /\ analysis_prompt = ""
    /\ agent = NoneV
    /\ response = NoResponse
    /\ vendor_requests = <<>>
    /\ adapter_out = Pending
    /\ pipeline_out = Pending
    /\ SchemaIdle
    /\ LoggerIdle
    /\ ClipIdle /\ JsonIdle /\ StripIdle /\ AppIdle /\ ConcIdle

\* agent.analyze of the Gemini adapter, the vendor answering with a JSON text
GeminiAnalyzeJson ==
    /\ pc = "gemini"
    /\ \E answer \in GeminiJsonResponses :
         LET r == gemini_analyze(agent, system_prompt, analysis_prompt,
                                 req.image.bytes, answer)
         IN /\ response' = answer
            /\ vendor_requests' = vendor_requests \o r.requests
            /\ adapter_out' = r.out
    /\ pc' = "adapter_done"
    /\ UNCHANGED <<req, system_prompt, analysis_prompt, agent, pipeline_out>>
    /\ UNCHANGED beside_pipeline

GeminiJsonNext ==
    \/ PipelineStart
    \/ GeminiAnalyzeJson
    \/ PipelineReturn
    \/ PipelineRaise

GeminiJsonSpec == GeminiJsonInit /\ [][GeminiJsonNext]_vars

\* ------------------------------------------------------------------------
\* RunLogger instances on one run directory (src/utils/run_logger.py): the
\* runs of one URL that start within the same second share the directory
\* ------------------------------------------------------------------------

LoggerIds == {"a", "b"}

\* the add_step calls one logger receives
MaxOwnSteps == 2

LogDir == make_run_dir("20250101-000000", AppUrl)

\* RunLogger._now() at the construction of each logger
LogTimes == [a |-> "2025-01-01T00:00:00Z", b |-> "2025-01-01T00:00:01Z"]

\* the keyword arguments of set_context (app.py lines 140-147, shortened)
LogContexts ==
    {[model_vendor |-> StrV("OpenAI"), effort |-> StrV("minimal")],
     [model_vendor |-> StrV("Google Gemini"), effort |-> StrV("low")]}

\* the arguments of add_step: name, status, detail (app.py lines 150, 220)
LogEntries ==
    {[step |-> "fetch_page", status |-> "started", detail |-> DictV([url |-> StrV(AppUrl)])],
     [step |-> "llm_pipeline", status |-> "error", detail |-> DictV([error |-> StrV("'low'")])]}

\* the log an earlier run left: one it wrote itself
EarlierLog ==
    persist([d \in {LogDir} |-> NoFile], LogDir,
            add_step(RunLogger_init(NoFile, "https://old.example", "2024-12-31T23:59:59Z"),
                     "fetch_page", "started",
                     DictV([url |-> StrV("https://old.example")])))[LogDir]

\* what run_log.json may be when the first logger is constructed
FilesFound ==
    {NoFile, UnreadableFile, ArrayFile, EarlierLog,
     [exists |-> TRUE, kind |-> "object", data |-> [url |-> StrV("https://old.example")]]}

LoggerInit ==
    /\ PipelineIdle
    /\ SchemaIdle
    /\ ClipIdle /\ JsonIdle /\ StripIdle /\ AppIdle /\ ConcIdle
    /\ \E f \in FilesFound :
         rl = [files |-> [d \in {LogDir} |-> f],
               loggers |-> [l \in LoggerIds |-> NoneV],
               last |-> ""]

\* RunLogger(run_dir, url=url)
LoggerConstruct(l) ==
    /\ rl.loggers[l] = NoneV
    /\ LET now == LogTimes[l]
           data == RunLogger_init(rl.files[LogDir], AppUrl, now)
       IN rl' = [files |-> persist(rl.files, LogDir, data),
                 loggers |-> [rl.loggers EXCEPT ![l] =
                                [data |-> data, found |-> rl.files[LogDir], now |-> now,
                                 loaded |-> data.steps, calls |-> <<>>]],
                 last |-> l]
    /\ UNCHANGED beside_logger

\* run_logger.set_context(**kwargs)
LoggerSetContext(l) ==
    /\ rl.loggers[l] # NoneV
    /\ \E kwargs \in LogContexts :
         LET data == set_context(rl.loggers[l].data, kwargs)
         IN rl' = [files |-> persist(rl.files, LogDir, data),
                   loggers |-> [rl.loggers EXCEPT ![l].data = data],
                   last |-> l]
    /\ UNCHANGED beside_logger

\* run_logger.add_step(name, status, detail=detail)
LoggerAddStep(l) ==
    /\ rl.loggers[l] # NoneV
    /\ Len(rl.loggers[l].calls) < MaxOwnSteps
    /\ \E e \in LogEntries :
         LET data == add_step(rl.loggers[l].data, e.step, e.status, e.detail)
         IN rl' = [files |-> persist(rl.files, LogDir, data),
                   loggers |-> [rl.loggers EXCEPT ![l].data = data,
                                                  ![l].calls = Append(@, e)],
                   last |-> l]
    /\ UNCHANGED beside_logger

LoggerNext ==
    \E l \in LoggerIds : LoggerConstruct(l) \/ LoggerSetContext(l) \/ LoggerAddStep(l)

LoggerSpec == LoggerInit /\ [][LoggerNext]_vars

\* ------------------------------------------------------------------------
\* Properties
\* ------------------------------------------------------------------------

FailureKinds == {"CallFailed", "MissingPayload", "ValidationFailed"}

\* agent.analyze has finished
AdapterDone == pc \in {"adapter_done", "done"}

\* the adapter issued its vendor call and the vendor answered (no exception)
VendorAnswered(vendor) ==
    /\ AdapterDone
    /\ agent.vendor = vendor
    /\ vendor_requests # <<>>
    /\ ~response.raised

\* the adapter issued its vendor call and the SDK raised
VendorRaised == AdapterDone /\ vendor_requests # <<>> /\ response.raised

\* C1: whenever an adapter invocation fails, what it raises is a
\* StructuredCallError of one of the three kinds CallFailed, MissingPayload,
\* ValidationFailed; no other exception type leaves an adapter.
C1_OnlyStructuredCallError ==
    (AdapterDone /\ adapter_out.status = "raised")
        => /\ adapter_out.exc.type = "StructuredCallError"
           /\ ErrorKind(adapter_out.exc) \in FailureKinds

\* C2: when the vendor SDK call raises, the adapter raises CallFailed, has
\* issued exactly one vendor call, and the error carries raw_text = None,
\* parsed = None and response_debug = None.
C2_CallFailedImmediately ==
    VendorRaised
        => /\ adapter_out.status = "raised"
           /\ adapter_out.exc.type = "StructuredCallError"
           /\ ErrorKind(adapter_out.exc) = "CallFailed"
           /\ Contains(adapter_out.exc.message, response.error)
           /\ Len(vendor_requests) = 1
           /\ adapter_out.exc.raw_text = NoneV
           /\ adapter_out.exc.parsed = NoneV
           /\ adapter_out.exc.response_debug = NoneV

\* a Gemini run whose SDK call raised has ended in CallFailed
C2_Witness ==
    /\ pc = "done"
    /\ agent.vendor = "gemini"
    /\ response.raised
    /\ pipeline_out.status = "raised"
    /\ ErrorKind(pipeline_out.exc) = "CallFailed"

\* what the Gemini response gives as raw text and as decoded payload
GeminiRaw == gemini_raw_text(response)

GeminiDecoded == gemini_parsed_dict(GeminiRaw)

\* fr is the finish reason the response reports: that of the first candidate
\* that has one
FirstReported(fr) ==
    /\ fr # NoneV
    /\ \E i \in 1..Len(response.candidates) :
         /\ response.candidates[i].finish_reason = fr
         /\ \A j \in 1..(i - 1) : response.candidates[j].finish_reason = NoneV

\* the non-empty candidate texts, in response order
RECURSIVE NonEmptyTexts(_)
NonEmptyTexts(cands) ==
    IF cands = <<>> THEN <<>>
    ELSE (IF Head(cands).text \notin {NoneV, StrV("")} THEN <<Head(cands).text>> ELSE <<>>)
           \o NonEmptyTexts(Tail(cands))

\* C3: in the Gemini adapter, when the call returns but no parsed payload is
\* obtained, the adapter raises MissingPayload; the message contains the
\* reported finish reason, the token-limit note when the reason is MAX_TOKENS
\* and the safety note when it is SAFETY; the error carries the raw text, the
\* candidate texts and the usage telemetry.
C3_MissingPayloadAnnotated ==
    (VendorAnswered("gemini") /\ GeminiDecoded = NoneV)
        => /\ adapter_out.status = "raised"
           /\ adapter_out.exc.type = "StructuredCallError"
           /\ ErrorKind(adapter_out.exc) = "MissingPayload"
           /\ \A fr \in FinishReasons :
                FirstReported(fr)
                    => /\ Contains(adapter_out.exc.message, "finish_reason: " \o fr.s)
                       /\ fr.s = "MAX_TOKENS"
                            => Contains(adapter_out.exc.message, MaxTokensNote)
                       /\ fr.s = "SAFETY"
                            => Contains(adapter_out.exc.message, SafetyNote)
           /\ adapter_out.exc.raw_text = GeminiRaw
           /\ adapter_out.exc.parsed = NoneV
           /\ adapter_out.exc.response_debug.d.candidates
                = ListV(NonEmptyTexts(response.candidates))
           /\ adapter_out.exc.response_debug.d.usage = DictV(response.usage_metadata.d)

\* a truncated first candidate with finish reason MAX_TOKENS has ended in
\* MissingPayload with the token-limit note
C3_Witness ==
    /\ pc = "done"
    /\ VendorAnswered("gemini")
    /\ Len(response.candidates) = 1
    /\ response.candidates[1] = [text |-> StrV(TextTruncated),
                                 finish_reason |-> StrV("MAX_TOKENS")]
    /\ pipeline_out.status = "raised"
    /\ ErrorKind(pipeline_out.exc) = "MissingPayload"
    /\ Contains(pipeline_out.exc.message, MaxTokensNote)

RECURSIVE IsJsonSafe(_)
\* the value consists of primitives, string-keyed dicts and lists only
IsJsonSafe(v) ==
    CASE v.t \in {"none", "str", "int", "float", "bool"} -> TRUE
      [] v.t = "list" -> \A i \in 1..Len(v.items) : IsJsonSafe(v.items[i])
      [] v.t = "dict" -> \A k \in DOMAIN v.d : IsJsonSafe(v.d[k])
      [] OTHER -> FALSE

\* C4: in the OpenAI adapter, when the call returns and the first choice's
\* message has parsed = None, the adapter raises MissingPayload with the
\* message content as raw_text, parsed = None and the JSON-safe response dump
\* as response_debug; when parsed is present it returns that object and a
\* debug bundle of raw_text, parsed_payload and response.
C4_OpenAIPayload ==
    (VendorAnswered("openai") /\ response.choices # <<>>)
        => LET message == response.choices[1].message
               dump == completion_dump(response)
           IN IF message.parsed = NoneV
              THEN /\ adapter_out.status = "raised"
                   /\ adapter_out.exc.type = "StructuredCallError"
                   /\ ErrorKind(adapter_out.exc) = "MissingPayload"
                   /\ adapter_out.exc.raw_text = message.content
                   /\ adapter_out.exc.parsed = NoneV
                   /\ adapter_out.exc.response_debug = dump
                   /\ IsJsonSafe(adapter_out.exc.response_debug)
              ELSE /\ adapter_out.status = "returned"
                   /\ adapter_out.value = message.parsed
                   /\ DOMAIN adapter_out.debug.d = {"raw_text", "parsed_payload", "response"}
                   /\ adapter_out.debug.d.raw_text = message.content
                   /\ adapter_out.debug.d.parsed_payload = model_dump(message.parsed)
                   /\ adapter_out.debug.d.response = dump

\* an OpenAI completion whose message has content but parsed = None has ended
\* in MissingPayload
C4_Witness ==
    /\ pc = "done"
    /\ VendorAnswered("openai")
    /\ response.choices # <<>>
    /\ response.choices[1].message = [parsed |-> NoneV, content |-> StrV(TextTruncated)]
    /\ pipeline_out.status = "raised"
    /\ ErrorKind(pipeline_out.exc) = "MissingPayload"

\* C5: in the Gemini adapter, when the raw text decodes to a payload that
\* does not satisfy the schema, the adapter raises ValidationFailed with the
\* raw text, the rejected payload unchanged and the usage telemetry; when the
\* payload satisfies the schema it returns the validated value and a debug
\* bundle of exactly raw_text, parsed_payload, candidates and usage.
C5_GeminiValidation ==
    (VendorAnswered("gemini") /\ GeminiDecoded # NoneV)
        => LET v == model_validate("AnalysisResult", json_loads(GeminiRaw.s).value)
           IN IF ~v.ok
              THEN /\ adapter_out.status = "raised"
                   /\ adapter_out.exc.type = "StructuredCallError"
                   /\ ErrorKind(adapter_out.exc) = "ValidationFailed"
                   /\ adapter_out.exc.raw_text = GeminiRaw
                   /\ adapter_out.exc.parsed = json_loads(GeminiRaw.s).value
                   /\ adapter_out.exc.response_debug.d.usage
                        = DictV(response.usage_metadata.d)
              ELSE /\ adapter_out.status = "returned"
                   /\ adapter_out.value = v.value
                   /\ DOMAIN adapter_out.debug.d
                        = {"raw_text", "parsed_payload", "candidates", "usage"}
                   /\ adapter_out.debug.d.raw_text = GeminiRaw
                   /\ adapter_out.debug.d.parsed_payload = json_loads(GeminiRaw.s).value
                   /\ adapter_out.debug.d.candidates
                        = ListV(NonEmptyTexts(response.candidates))
                   /\ adapter_out.debug.d.usage = DictV(response.usage_metadata.d)

\* a candidate text with an undeclared nested field has ended in
\* ValidationFailed, the error carrying the decoded payload
C5_Witness ==
    /\ pc = "done"
    /\ VendorAnswered("gemini")
    /\ GeminiRaw = StrV(TextUnknownField)
    /\ pipeline_out.status = "raised"
    /\ ErrorKind(pipeline_out.exc) = "ValidationFailed"
    /\ pipeline_out.exc.parsed = json_loads(TextUnknownField).value

\* C6: in the Gemini adapter a JSON decode failure on the raw text does not
\* raise by itself and is not classified as ValidationFailed: the call ends
\* with MissingPayload, which carries the undecodable raw text.
C6_DecodeFailureIsMissingPayload ==
    (VendorAnswered("gemini") /\ Truthy(GeminiRaw) /\ ~json_loads(GeminiRaw.s).ok)
        => /\ adapter_out.status = "raised"
           /\ adapter_out.exc.type = "StructuredCallError"
           /\ ErrorKind(adapter_out.exc) = "MissingPayload"
           /\ adapter_out.exc.raw_text = GeminiRaw
           /\ adapter_out.exc.parsed = NoneV

\* an undecodable first candidate text, followed by a decodable one, has
\* ended in MissingPayload carrying the undecodable text
C6_Witness ==
    /\ pc = "done"
    /\ VendorAnswered("gemini")
    /\ Len(response.candidates) = 2
    /\ response.candidates[1].text = StrV(TextTruncated)
    /\ response.candidates[2].text = StrV(TextValid)
    /\ pipeline_out.status = "raised"
    /\ ErrorKind(pipeline_out.exc) = "MissingPayload"
    /\ pipeline_out.exc.raw_text = StrV(TextTruncated)

\* C7: every invocation of run_structured_pipeline that reaches an adapter
\* issues exactly one vendor call, whatever its outcome.
C7_ExactlyOneVendorCall ==
    AdapterDone => Len(vendor_requests) = 1

\* C8: a StructuredCallError raised by the adapter leaves
\* run_structured_pipeline unchanged (same message, raw_text, parsed,
\* response_debug), and then no result and no artifacts are returned.
C8_FailurePropagatesUnchanged ==
    (pc = "done" /\ adapter_out.status = "raised"
       /\ adapter_out.exc.type = "StructuredCallError")
        => /\ pipeline_out.status = "raised"
           /\ pipeline_out.exc = adapter_out.exc
           /\ DOMAIN pipeline_out = {"status", "exc"}

\* a ValidationFailed of the Gemini adapter has left the pipeline with its
\* rejected payload
C8_Witness ==
    /\ pc = "done"
    /\ VendorAnswered("gemini")
    /\ adapter_out.status = "raised"
    /\ ErrorKind(adapter_out.exc) = "ValidationFailed"
    /\ adapter_out.exc.parsed = EmptyDict
    /\ pipeline_out.status = "raised"
    /\ pipeline_out.exc.parsed = EmptyDict

\* the system text and the prompt text of the request the adapter issued
SentSystem ==
    IF vendor_requests[1].vendor = "gemini"
    THEN StrV(vendor_requests[1].config.base.system_instruction[1])
    ELSE vendor_requests[1].messages[1].content

SentPrompt ==
    IF vendor_requests[1].vendor = "gemini"
    THEN vendor_requests[1].contents[1]
    ELSE LET content == vendor_requests[1].messages[2].content.items
         IN content[Len(content)].d.text

\* C9: on success run_structured_pipeline returns the adapter's result and an
\* artifact mapping with exactly the keys system_prompt, analysis_prompt,
\* analysis_raw, analysis_debug: the two prompts as sent, the re-serialized
\* result and the JSON-safe debug bundle; the result is the adapter's,
\* unaltered.
C9_SuccessArtifacts ==
    (pc = "done" /\ adapter_out.status = "returned")
        => /\ pipeline_out.status = "returned"
           /\ pipeline_out.value = adapter_out.value
           /\ pipeline_out.value.t = "model"
           /\ pipeline_out.value.cls = "AnalysisResult"
           /\ LET artifacts == pipeline_out.debug.d
              IN /\ DOMAIN artifacts = {"system_prompt", "analysis_prompt",
                                        "analysis_raw", "analysis_debug"}
                 /\ artifacts.system_prompt = SentSystem
                 /\ artifacts.system_prompt
                      = IF req.custom_system_prompt = NoneV
                        THEN StrV(build_system_prompt) ELSE req.custom_system_prompt
                 /\ artifacts.analysis_prompt = SentPrompt
                 /\ artifacts.analysis_raw.t = "dict"
                 /\ DOMAIN artifacts.analysis_raw.d = DOMAIN AnalysisResult
                 /\ model_validate("AnalysisResult", artifacts.analysis_raw).value
                      = pipeline_out.value
                 /\ \A i \in 1..Len(pipeline_out.value.f.issues.items) :
                      artifacts.analysis_raw.d.issues.items[i].d
                        = pipeline_out.value.f.issues.items[i].f
                 /\ artifacts.analysis_debug = make_json_safe(adapter_out.debug)
                 /\ IsJsonSafe(artifacts.analysis_debug)

\* a Gemini run with the default system prompt has returned a result whose
\* issue took the default severity, and the artifacts hold it re-serialized
C9_Witness ==
    /\ pc = "done"
    /\ VendorAnswered("gemini")
    /\ req.custom_system_prompt = NoneV
    /\ pipeline_out.status = "returned"
    /\ pipeline_out.value.f.issues.items[1].f.severity = StrV("medium")
    /\ pipeline_out.debug.d.analysis_raw.d.issues.items[1].d.severity = StrV("medium")
    /\ "severity" \notin DOMAIN pipeline_out.debug.d.analysis_debug.d.parsed_payload.d.issues.items[1].d

RECURSIVE HasUndeclaredField(_, _)
\* the payload has a key its schema does not declare, at the top level or in
\* an item of a list field
HasUndeclaredField(cls, v) ==
    /\ v.t = "dict"
    /\ \/ DOMAIN v.d \ DOMAIN SchemaOf(cls) # {}
       \/ \E f \in DOMAIN v.d \cap DOMAIN SchemaOf(cls) :
            /\ SchemaOf(cls)[f].kind = "list"
            /\ v.d[f].t = "list"
            /\ \E i \in 1..Len(v.d[f].items) :
                 HasUndeclaredField(SchemaOf(cls)[f].item, v.d[f].items[i])

\* C10: for every registered schema, decoding a payload that has an
\* undeclared field, at the top level or in a nested item, fails with a
\* validation error that names an undeclared field; it never returns a result.
C10_SchemaClosure ==
    (sc_out # Pending /\ HasUndeclaredField(sc_cls, sc_payload))
        => /\ sc_out.status = "raised"
           /\ \E e \in sc_out.errs :
                /\ e.type = "extra_forbidden"
                /\ e.loc[Len(e.loc)] = UnknownKey

\* a DiffResult payload whose only flaw is an undeclared key in a variant of
\* an improvement point has been rejected, the error naming that key
C10_Witness ==
    /\ sc_cls = "DiffResult"
    /\ sc_out # Pending
    /\ sc_out.status = "raised"
    /\ sc_out.errs = {ErrAt(<<"improvement_points", "0", "variants", "1", UnknownKey>>,
                            "extra_forbidden")}

\* C11: for every valid instance x of a registered schema, decoding the
\* encoding of x gives x again (model_validate(model_dump(x)) = x), also when
\* optional fields are absent and severity took its default.
C11_RoundTrip ==
    sc_round # Pending
        => /\ sc_round.decoded.ok
           /\ sc_round.decoded.value = sc_out.value

\* an Issue decoded from a payload without evidence and severity went round
C11_Witness ==
    /\ sc_round # Pending
    /\ sc_cls = "Issue"
    /\ DOMAIN sc_payload.d = {"title", "detail"}
    /\ sc_out.value.f.severity = StrV("medium")
    /\ sc_out.value.f.evidence = NoneV
    /\ sc_round.encoded = DictV([title |-> sc_payload.d.title,
                                 detail |-> sc_payload.d.detail,
                                 evidence |-> NoneV,
                                 severity |-> StrV("medium")])

\* an Issue payload that is a dict with valid title and detail, and nothing
\* wrong in its other keys
IssuePayloadWith(keys) ==
    /\ sc_cls = "Issue"
    /\ sc_payload.t = "dict"
    /\ {"title", "detail"} \subseteq DOMAIN sc_payload.d
    /\ DOMAIN sc_payload.d \subseteq {"title", "detail"} \cup keys
    /\ sc_payload.d.title.t = "str"
    /\ sc_payload.d.detail.t = "str"
    /\ "evidence" \in DOMAIN sc_payload.d => sc_payload.d.evidence.t \in {"str", "none"}

\* C12: an Issue payload that has title and detail and omits severity decodes
\* successfully with severity = medium; an Issue payload whose severity is
\* outside {low, medium, high} fails to decode.
C12_SeverityDefault ==
    (sc_cls = "Issue" /\ sc_out # Pending)
        => /\ IssuePayloadWith({"evidence"})
                => /\ sc_out.status = "returned"
                   /\ sc_out.value.f.severity = StrV("medium")
           /\ (/\ sc_payload.t = "dict"
               /\ "severity" \in DOMAIN sc_payload.d
               /\ sc_payload.d.severity \notin {StrV("low"), StrV("medium"), StrV("high")})
                => /\ sc_out.status = "raised"
                   /\ ErrAt(<<"severity">>, "enum") \in sc_out.errs

\* an otherwise valid Issue payload with severity "urgent" was rejected
C12_RejectedWitness ==
    /\ IssuePayloadWith({"evidence", "severity"})
    /\ "severity" \in DOMAIN sc_payload.d
    /\ sc_payload.d.severity = StrV("urgent")
    /\ sc_out.status = "raised"
    /\ sc_out.errs = {ErrAt(<<"severity">>, "enum")}

\* an Issue payload of title and detail alone was decoded with the default
C12_WitnessDefault ==
    /\ IssuePayloadWith({})
    /\ sc_out.status = "returned"
    /\ sc_out.value.f.severity = StrV("medium")

\* C16: decoding a DiffResult succeeds only if every improvement point has
\* exactly three variants; a point with fewer or more variants is rejected.
C16_ExactlyThreeVariants ==
    (sc_cls = "DiffResult" /\ sc_out # Pending /\ sc_out.status = "returned")
        => \A i \in 1..Len(sc_out.value.f.improvement_points.items) :
              Len(sc_out.value.f.improvement_points.items[i].f.variants.items) = 3

\* the marker _clip_for_prompt is to insert when n characters are omitted
ClipMarker(comment_style, n) ==
    LET body == ToString(n) \o " chars truncated for prompt budget"
    IN IF comment_style = "html" THEN "\n<!-- " \o body \o " -->\n"
       ELSE "\n/* " \o body \o " */\n"

\* C13: _clip_for_prompt with budget B on a text of length L: for L <= B the
\* text comes back unchanged; for L > B the output has B + len(marker)
\* characters, its first floor(0.7 B) characters are the first floor(0.7 B) of
\* the input, its last B - floor(0.7 B) characters are the last of the input,
\* and the marker between them reports exactly L - B omitted characters.
C13_Clip ==
    (clip # Pending /\ clip.out # Pending)
        => LET B == clip.max_chars
               L == Len(clip.text)
               h == (7 * B) \div 10
               o == clip.out.value
               marker == ClipMarker(clip.comment_style, L - B)
           IN IF L <= B THEN o = clip.text
              ELSE /\ Len(o) = B + Len(marker)
                   /\ SubSeq(o, 1, h) = SubSeq(clip.text, 1, h)
                   /\ SubSeq(o, Len(o) - (B - h) + 1, Len(o))
                        = SubSeq(clip.text, L - (B - h) + 1, L)
                   /\ SubSeq(o, h + 1, Len(o) - (B - h)) = marker

\* a markup text three characters over the budget was clipped
C13_Witness ==
    /\ clip # Pending
    /\ clip.out # Pending
    /\ clip.max_chars = MAX_HTML_CHARS
    /\ Len(clip.text) = MAX_HTML_CHARS + 3
    /\ Len(clip.out.value) = MAX_HTML_CHARS + Len("\n<!-- 3 chars truncated for prompt budget -->\n")
    /\ clip.out.value # clip.text

\* C14: make_json_safe is idempotent on primitives, nested mappings and
\* sequences (lists, tuples, sets) and objects with a dict-like extraction
\* method: make_json_safe(make_json_safe(v)) = make_json_safe(v), and the
\* result contains only primitives, string-keyed mappings and lists.
C14_JsonSafeIdempotent ==
    /\ (js # Pending /\ js.once # Pending) => IsJsonSafe(js.once.value)
    /\ (js # Pending /\ js.twice # Pending) => js.twice.value = js.once.value

\* a tuple holding a dict with an int key was converted, and converted again
C14_Witness ==
    /\ js # Pending
    /\ js.twice # Pending
    /\ js.value = TupleV(<<MappingV(<<[k |-> IntV(1), v |-> NoneV],
                                      [k |-> StrV("1"), v |-> StrV("a")]>>)>>)
    /\ js.once.value = ListV(<<DictV([x \in {"1"} |-> StrV("a")])>>)

RECURSIVE HasUnsupportedKey(_)
\* one of the three unsupported keys occurs somewhere in the document
HasUnsupportedKey(v) ==
    CASE v.t = "mapping" ->
           \E i \in 1..Len(v.pairs) :
              v.pairs[i].k.s \in UnsupportedKeys \/ HasUnsupportedKey(v.pairs[i].v)
      [] v.t = "list" -> \E i \in 1..Len(v.items) : HasUnsupportedKey(v.items[i])
      [] OTHER -> FALSE

RECURSIVE StripAgrees(_, _)
\* out is src without the unsupported keys, every other key and value kept in
\* place, and every object-typed node has a propertyOrdering: the one it had,
\* or else its property names in order
StripAgrees(src, out) ==
    CASE src.t = "mapping" ->
           /\ out.t = "mapping"
           /\ LET supported(p) == p.k.s \notin UnsupportedKeys
                  had(p) == p.k.s # "propertyOrdering" \/ HasKey(src, "propertyOrdering")
                  kept == SelectSeq(src.pairs, supported)
                  rest == SelectSeq(out.pairs, had)
              IN /\ Len(rest) = Len(kept)
                 /\ \A i \in 1..Len(kept) :
                       /\ rest[i].k = kept[i].k
                       /\ StripAgrees(kept[i].v, rest[i].v)
                 /\ (HasKey(src, "type") /\ ValueAt(src, "type") = StrV("object"))
                      => /\ HasKey(out, "propertyOrdering")
                         /\ ValueAt(out, "propertyOrdering")
                              = IF HasKey(src, "propertyOrdering")
                                THEN ValueAt(src, "propertyOrdering")
                                ELSE ListV([i \in 1..Len(ValueAt(src, "properties").pairs) |->
                                              ValueAt(src, "properties").pairs[i].k])
      [] src.t = "list" ->
           /\ out.t = "list"
           /\ Len(out.items) = Len(src.items)
           /\ \A i \in 1..Len(src.items) : StripAgrees(src.items[i], out.items[i])
      [] OTHER -> out = src

\* C15: the schema descriptor for Gemini contains none of additionalProperties,
\* unevaluatedProperties, patternProperties at any depth; every object-typed
\* node carries a propertyOrdering equal to its declared property names in
\* declaration order, an already-present propertyOrdering being left
\* unchanged; every other key and value of the source schema is preserved.
C15_SchemaDescriptor ==
    (strip # Pending /\ strip.out # Pending)
        => /\ ~HasUnsupportedKey(strip.out.value)
           /\ StripAgrees(strip.source, strip.out.value)
           /\ ~strip.deco.preset
                => ValueAt(strip.out.value, "propertyOrdering")
                     = ListV([i \in 1..Len(FieldOrder(strip.cls)) |->
                                StrV(FieldOrder(strip.cls)[i])])

\* pydantic's document for AnalysisResult, with additionalProperties on the
\* root and on the nested Issue definition, was converted
C15_Witness ==
    /\ strip # Pending
    /\ strip.out # Pending
    /\ strip.cls = "AnalysisResult"
    /\ strip.deco = PydanticOutput
    /\ HasKey(strip.source, "additionalProperties")
    /\ HasKey(ValueAt(ValueAt(strip.source, "$defs"), "Issue"), "additionalProperties")
    /\ ValueAt(ValueAt(ValueAt(strip.out.value, "$defs"), "Issue"), "propertyOrdering")
         = ListV(<<StrV("title"), StrV("detail"), StrV("evidence"), StrV("severity")>>)
    /\ strip.out.value = model_schema_for_gemini("AnalysisResult")

\* a document whose object nodes already had a propertyOrdering was converted
C15_WitnessPreset ==
    /\ strip # Pending
    /\ strip.out # Pending
    /\ strip.deco.preset
    /\ strip.cls = "Issue"
    /\ ValueAt(strip.out.value, "propertyOrdering")
         = ListV(<<StrV("severity"), StrV("evidence"), StrV("detail"), StrV("title")>>)

\* C17: every StructuredCallError an adapter raises carries a message, the
\* raw provider text if any was obtained, the parsed payload if any was
\* obtained, and a diagnostic bundle with the usage telemetry, the finish
\* reason and the candidate texts; nothing the adapter obtained from the
\* vendor is discarded on the failure path.
C17_ErrorCarriesDiagnostics ==
    (AdapterDone /\ adapter_out.status = "raised"
       /\ adapter_out.exc.type = "StructuredCallError")
        => LET exc == adapter_out.exc
           IN /\ exc.message # ""
              /\ VendorRaised => Contains(exc.message, response.error)
              /\ VendorAnswered("gemini")
                   => /\ exc.raw_text = GeminiRaw
                      /\ exc.parsed = GeminiDecoded
                      /\ exc.response_debug.t = "dict"
                      /\ {"usage", "candidates"} \subseteq DOMAIN exc.response_debug.d
                      /\ exc.response_debug.d.usage = make_json_safe(response.usage_metadata)
                      /\ gemini_finish_reason(response) # NoneV
                           => /\ "finish_reason" \in DOMAIN exc.response_debug.d
                              /\ exc.response_debug.d.finish_reason
                                   = gemini_finish_reason(response)
                      /\ exc.response_debug.d.candidates
                           = ListV(NonEmptyTexts(response.candidates))
              /\ VendorAnswered("openai")
                   => /\ exc.raw_text = response.choices[1].message.content
                      /\ exc.parsed = NoneV
                      /\ exc.response_debug = completion_dump(response)

\* the raw text the Gemini adapter is to work on: the first non-empty candidate
\* text, else response.text
ChosenRawText ==
    LET texts == NonEmptyTexts(response.candidates)
    IN IF texts # <<>> THEN texts[1] ELSE response.text

\* the JSON value of the chosen raw text, None when it is empty or undecodable
ChosenDecoded ==
    IF ChosenRawText \in {NoneV, StrV("")} THEN NoneV
    ELSE IF json_loads(ChosenRawText.s).ok THEN json_loads(ChosenRawText.s).value
    ELSE NoneV

\* C20: in the Gemini adapter the raw text is the text of the first candidate,
\* in order, whose text is non-empty; response.text is used only when no
\* candidate gave text; candidate_texts lists all non-empty candidate texts in
\* order; only the chosen raw text is JSON-decoded, later candidates are never
\* tried even when the first is undecodable.
C20_FirstNonEmptyCandidate ==
    VendorAnswered("gemini")
        => LET failed == adapter_out.status = "raised"
               carried == IF failed THEN adapter_out.exc.response_debug.d
                          ELSE adapter_out.debug.d
           IN /\ (IF failed THEN adapter_out.exc.raw_text ELSE carried.raw_text)
                   = ChosenRawText
              /\ carried.candidates = ListV(NonEmptyTexts(response.candidates))
              /\ ChosenDecoded = NoneV
                   => failed /\ ErrorKind(adapter_out.exc) = "MissingPayload"
              /\ ChosenDecoded # NoneV
                   => IF failed
                      THEN /\ ErrorKind(adapter_out.exc) = "ValidationFailed"
                           /\ adapter_out.exc.parsed = ChosenDecoded
                      ELSE carried.parsed_payload = ChosenDecoded

\* the first candidate had an empty text, the second a valid one, and the
\* response a different top-level text: the second candidate's text was used
C20_Witness ==
    /\ VendorAnswered("gemini")
    /\ Len(response.candidates) = 2
    /\ response.candidates[1].text = StrV("")
    /\ response.candidates[2].text = StrV(TextValid)
    /\ response.text = StrV(TextEmptyObject)
    /\ adapter_out.status = "returned"
    /\ adapter_out.debug.d.raw_text = StrV(TextValid)
    /\ adapter_out.debug.d.candidates = ListV(<<StrV(TextValid)>>)

\* the first candidate's text was undecodable and the second's valid: the
\* second was not tried
C20_WitnessNotTried ==
    /\ VendorAnswered("gemini")
    /\ Len(response.candidates) = 2
    /\ response.candidates[1].text = StrV(TextTruncated)
    /\ response.candidates[2].text = StrV(TextValid)
    /\ adapter_out.status = "raised"
    /\ adapter_out.exc.raw_text = StrV(TextTruncated)

\* the session's run has logged its first step
Running(s) == app.sess[s].pc # "idle"

\* the steps the session's logger holds, and those its own run appended
LoggedSteps(s) == app.sess[s].data.steps

OwnSteps(s) == SubSeq(LoggedSteps(s), app.sess[s].base + 1, Len(LoggedSteps(s)))

IsStep(entry, name, status) == entry.step = name /\ entry.status = status

\* in the step sequence: display_results only after an llm_pipeline success,
\* and nothing after an llm_pipeline error
WellOrdered(steps) ==
    /\ \A i \in 1..Len(steps) :
          IsStep(steps[i], "display_results", "success")
              => \E j \in 1..(i - 1) : IsStep(steps[j], "llm_pipeline", "success")
    /\ \A i \in 1..Len(steps) :
          IsStep(steps[i], "llm_pipeline", "error") => i = Len(steps)

\* the pipeline call of the session's run failed with one of the three kinds:
\* the message is shown verbatim, the error step is the last step logged, the
\* run is stopped and no result is rendered
FailureHandled(s) ==
    (/\ app.sess[s].outcome # Pending
     /\ app.sess[s].outcome.status = "raised"
     /\ ErrorKind(app.sess[s].outcome.exc) \in FailureKinds)
        => LET me == app.sess[s]
               last == me.data.steps[Len(me.data.steps)]
           IN /\ me.pc = "stopped"
              /\ \E i \in 1..Len(me.shown) :
                    me.shown[i] = [kind |-> "code", text |-> me.outcome.exc.message]
              /\ \A i \in 1..Len(me.shown) : me.shown[i].kind # "results"
              /\ IsStep(last, "llm_pipeline", "error")
              /\ last.detail = DictV([error |-> StrV(me.outcome.exc.message)])

\* C18 (as stated): whenever the pipeline call fails with one of the three
\* kinds, the message is shown verbatim, an llm_pipeline error step is logged
\* and the run stops before any result is rendered; in every run log a
\* display_results step occurs only after an llm_pipeline success step and no
\* step is logged after an llm_pipeline error step.
C18_FailureStopsRun ==
    app # Pending
        => /\ \A s \in AppSessions :
                 Running(s) => FailureHandled(s) /\ WellOrdered(LoggedSteps(s))
           /\ \A d \in RunDirs :
                 app.files[d].exists => WellOrdered(app.files[d].data.steps)

\* C18 (amended): the same, the order of steps being that of the steps one
\* run appends to its log: a log taken over from an earlier run of the same
\* directory may end in an llm_pipeline error step and be appended to.
C18_FailureStopsOwnRun ==
    app # Pending
        => \A s \in AppSessions :
              Running(s) => FailureHandled(s) /\ WellOrdered(OwnSteps(s))

\* a run that took over a log of three steps has failed with MissingPayload
\* and is stopped, the error step being its third and last
C18_Witness ==
    /\ app # Pending
    /\ \E s \in AppSessions :
         /\ app.sess[s].pc = "stopped"
         /\ app.sess[s].base = 3
         /\ app.sess[s].outcome # Pending
         /\ app.sess[s].outcome.status = "raised"
         /\ ErrorKind(app.sess[s].outcome.exc) = "MissingPayload"
         /\ Len(OwnSteps(s)) = 3
         /\ IsStep(OwnSteps(s)[3], "llm_pipeline", "error")

\* the requests that reached a vendor from invocation p, in order
RequestsBy(p) ==
    LET mine(e) == e.by = p
        es == SelectSeq(conc.vendor_log, mine)
    IN [i \in 1..Len(es) |-> es[i].request]

\* the arguments r make the invocation fail before it calls a vendor
NoCallBy(r) ==
    /\ r.vendor = "Google Gemini"
    /\ gemini_missing_hint(GeminiStructuredAgent(r.model, r.verbosity, r.effort)) # ""

\* C19: concurrent invocations of run_structured_pipeline share no mutable
\* state: under any interleaving of two invocations, the result, error and
\* artifacts of each, and the request it sent, are those its own arguments and
\* its own vendor response give.
C19_InvocationsIndependent ==
    conc # Pending
        => \A p \in ConcProcs :
              conc.inv[p].pc = "done"
                  => LET alone == run_structured_pipeline(conc.inv[p].req,
                                                          conc.inv[p].response)
                     IN /\ (conc.inv[p].response = NoResponse) <=> NoCallBy(conc.inv[p].req)
                        /\ conc.inv[p].pipeline_out = alone.out
                        /\ RequestsBy(p) = alone.requests

\* two Gemini invocations with different verbosity overlapped: the first to
\* construct its adapter was the second to call; one returned, one failed
C19_Witness ==
    /\ conc # Pending
    /\ conc.inv[1].pc = "done"
    /\ conc.inv[2].pc = "done"
    /\ conc.inv[1].req.vendor = "Google Gemini"
    /\ conc.inv[2].req.vendor = "Google Gemini"
    /\ conc.inv[1].req.verbosity # conc.inv[2].req.verbosity
    /\ conc.constructed[1] = conc.inv[1].agent
    /\ Len(conc.vendor_log) = 2
    /\ conc.vendor_log[1].by = 2
    /\ conc.inv[1].pipeline_out.status = "returned"
    /\ conc.inv[2].pipeline_out.status = "raised"

\* the requests issued to the OpenAI SDK so far
OpenAIRequests ==
    {vendor_requests[i] : i \in {j \in 1..Len(vendor_requests) :
                                   vendor_requests[j].vendor = "openai"}}

\* the system prompt and the user content the pipeline hands to the adapter,
\* written out from the invocation's arguments
SystemAsGiven ==
    IF req.custom_system_prompt \in {NoneV, StrV("")}
    THEN build_system_prompt ELSE req.custom_system_prompt.s

UserTextAsGiven ==
    DictV([type |-> StrV("text"),
           text |-> StrV(build_analysis_prompt(req.html, req.css_bundle,
                                               req.extra_instruction))])

\* C21: a request of the OpenAI adapter carries reasoning_effort and verbosity,
\* set to the configured effort and verbosity, exactly when the model
\* identifier starts with "gpt-5"; for every other model neither parameter is
\* present; the system message is the system prompt as given and the user
\* content ends with the analysis prompt as given, neither carrying the settings.
C21_NativeParametersIffGpt5 ==
    \A q \in OpenAIRequests :
       /\ IF SubSeq(req.model, 1, 5) = "gpt-5"
          THEN /\ {"reasoning_effort", "verbosity"} \subseteq DOMAIN q
               /\ q.reasoning_effort = req.effort
               /\ q.verbosity = req.verbosity
          ELSE {"reasoning_effort", "verbosity"} \cap DOMAIN q = {}
       /\ q.model = req.model
       /\ q.messages[1] = [role |-> "system", content |-> StrV(SystemAsGiven)]
       /\ q.messages[2].role = "user"
       /\ q.messages[2].content.items[Len(q.messages[2].content.items)] = UserTextAsGiven
       /\ \A i \in 1..(Len(q.messages[2].content.items) - 1) :
             q.messages[2].content.items[i].d.type = StrV("image_url")

\* a request for a gpt-5 model and one for another model have been issued
C21_Witness ==
    /\ pc = "done"
    /\ req.model = "gpt-5-mini"
    /\ req.effort = "low"
    /\ req.verbosity = "high"
    /\ \E q \in OpenAIRequests : q.reasoning_effort = "low" /\ q.verbosity = "high"

C21_WitnessOtherModel ==
    /\ pc = "done"
    /\ req.model = "gpt-4o"
    /\ \E q \in OpenAIRequests : DOMAIN q = {"vendor", "model", "messages", "response_format"}

\* the Gemini adapter has finished its analyze call
GeminiAnalyzed == agent # NoneV /\ agent.vendor = "gemini" /\ pc \in {"adapter_done", "done"}

C22_WitnessCall ==
    /\ GeminiAnalyzed
    /\ req.effort = "high"
    /\ req.verbosity = "medium"
    /\ Len(vendor_requests) = 1
    /\ Len(vendor_requests[1].config.base.system_instruction) = 3

\* C23: run_structured_pipeline dispatches to the Gemini adapter exactly when
\* vendor is the literal "Google Gemini" and to the OpenAI adapter for every
\* other vendor string; an unrecognized vendor name is never rejected: the
\* invocation issues one OpenAI call and fails only as that adapter fails.
C23_DispatchByVendor ==
    /\ (agent # NoneV) =>
          /\ (agent.vendor = "gemini") <=> (req.vendor = "Google Gemini")
          /\ (agent.vendor = "openai") <=> (req.vendor # "Google Gemini")
    /\ \A i \in 1..Len(vendor_requests) :
          (vendor_requests[i].vendor = "gemini") <=> (req.vendor = "Google Gemini")
    /\ (agent = NoneV) => (pc = "start" /\ pipeline_out = Pending)
    /\ (AdapterDone /\ req.vendor # "Google Gemini") =>
          /\ Len(vendor_requests) = 1
          /\ vendor_requests[1].vendor = "openai"
          /\ vendor_requests[1].model = req.model
    /\ (pc = "done" /\ req.vendor \notin {"Google Gemini", "OpenAI"}) =>
          (pipeline_out.status = "raised" => pipeline_out = adapter_out)

\* an invocation with an unrecognized vendor name has returned a result
\* after one OpenAI call
C23_Witness ==
    /\ req.vendor = "Anthropic"
    /\ pc = "done"
    /\ pipeline_out.status = "returned"
    /\ Len(vendor_requests) = 1
    /\ vendor_requests[1].vendor = "openai"

\* what json.loads gives for the raw text of the response, written out
RawDecodes == GeminiRaw \notin {NoneV, StrV("")} /\ json_loads(GeminiRaw.s).ok

RawValue == json_loads(GeminiRaw.s).value

\* C24: in the Gemini adapter the split between MissingPayload and
\* ValidationFailed depends only on whether the decoded value is None: a raw
\* text that is the JSON literal null ends in MissingPayload although it
\* decodes; a raw text that decodes to any other value that does not conform
\* to the schema (empty object, list, number, string, false) ends in
\* ValidationFailed, the error carrying that value as its payload.
C24_SplitOnNoneOnly ==
    VendorAnswered("gemini") =>
       /\ (GeminiRaw = StrV(TextNull)) =>
             /\ RawDecodes
             /\ adapter_out.status = "raised"
             /\ ErrorKind(adapter_out.exc) = "MissingPayload"
       /\ (RawDecodes /\ RawValue # NoneV /\ ~model_validate("AnalysisResult", RawValue).ok) =>
             /\ adapter_out.status = "raised"
             /\ ErrorKind(adapter_out.exc) = "ValidationFailed"
             /\ adapter_out.exc.parsed = RawValue
       /\ (adapter_out.status = "raised" /\ ErrorKind(adapter_out.exc) = "MissingPayload")
             <=> (~RawDecodes \/ RawValue = NoneV)

\* the raw text false has ended in ValidationFailed carrying False
C24_Witness ==
    /\ VendorAnswered("gemini")
    /\ pc = "done"
    /\ GeminiRaw = StrV(TextFalse)
    /\ ErrorKind(pipeline_out.exc) = "ValidationFailed"
    /\ pipeline_out.exc.parsed = BoolV(FALSE)

\* the raw text null has ended in MissingPayload
C24_WitnessNull ==
    /\ VendorAnswered("gemini")
    /\ pc = "done"
    /\ GeminiRaw = StrV(TextNull)
    /\ response.candidates # <<>>
    /\ ErrorKind(pipeline_out.exc) = "MissingPayload"

\* the loggers constructed so far
Constructed == {l \in LoggerIds : rl.loggers[l] # NoneV}

\* what json.load reads from the log file
LogDocument == rl.files[LogDir].data

\* C25: after the construction of a RunLogger and after each of its
\* set_context and add_step calls, the JSON document at log_path equals the
\* logger's in-memory data; add_step appends one entry at the end of steps, so
\* a logger's steps are those it started from followed by the entries of its
\* add_step calls, in the order of the calls.
C25_LogFileFollowsData ==
    (rl # Pending) =>
       /\ (rl.last # "") =>
             /\ rl.files[LogDir].exists
             /\ rl.files[LogDir].kind = "object"
             /\ LogDocument = rl.loggers[rl.last].data
       /\ \A l \in Constructed :
             rl.loggers[l].data.steps = rl.loggers[l].loaded \o rl.loggers[l].calls

\* a logger that started from an earlier log has logged two steps of its own
C25_Witness ==
    /\ rl # Pending
    /\ rl.last = "a"
    /\ rl.loggers["a"] # NoneV
    /\ rl.loggers["a"].loaded # <<>>
    /\ Len(rl.loggers["a"].calls) = 2
    /\ rl.loggers["a"].calls[1] # rl.loggers["a"].calls[2]
    /\ Len(LogDocument.steps) = 3
    /\ "model_vendor" \in DOMAIN LogDocument

\* the file logger l found at its construction was a readable JSON object
FoundLog(l) == rl.loggers[l].found.exists /\ rl.loggers[l].found.kind = "object"

\* C26: a RunLogger constructed on a run directory that holds a readable
\* run_log.json retains the existing steps and appends its own steps after
\* them, and the existing url and created_at take precedence over the new
\* ones; when the existing file is unreadable or not a JSON object the logger
\* is constructed all the same and starts with empty steps and its own url and
\* created_at.
C26_ExistingLogTakenOver ==
    (rl # Pending) =>
       \A l \in Constructed :
          LET me == rl.loggers[l]
              old == me.found.data
          IN IF FoundLog(l)
             THEN /\ me.loaded = (IF "steps" \in DOMAIN old THEN old.steps ELSE <<>>)
                  /\ me.data.steps = me.loaded \o me.calls
                  /\ me.data.url = (IF "url" \in DOMAIN old THEN old.url ELSE StrV(AppUrl))
                  /\ me.data.created_at =
                        (IF "created_at" \in DOMAIN old THEN old.created_at ELSE StrV(me.now))
             ELSE /\ me.loaded = <<>>
                  /\ me.data.steps = me.calls
                  /\ me.data.url = StrV(AppUrl)
                  /\ me.data.created_at = StrV(me.now)

\* logger b was constructed on the log logger a had written a step to, and
\* has appended a step of its own after it
C26_Witness ==
    /\ rl # Pending
    /\ Constructed = LoggerIds
    /\ FoundLog("b")
    /\ "created_at" \in DOMAIN rl.loggers["b"].found.data
    /\ rl.loggers["b"].found.data.created_at = StrV(LogTimes["a"])
    /\ rl.loggers["b"].data.created_at # StrV(rl.loggers["b"].now)
    /\ Len(rl.loggers["b"].loaded) = 1
    /\ Len(rl.loggers["b"].calls) = 1
    /\ Len(rl.loggers["b"].data.steps) = 2
    /\ rl.last = "b"

\* a logger was constructed on an unreadable log and one on a JSON array
C26_WitnessFresh ==
    /\ rl # Pending
    /\ \E l \in Constructed :
         /\ rl.loggers[l].found \in {UnreadableFile, ArrayFile}
         /\ rl.loggers[l].data.steps = rl.loggers[l].calls
         /\ rl.loggers[l].calls # <<>>

\* the page fetch of session s failed inside fetch_page
FetchFailed(s) == app.sess[s].web # NoneV /\ app.sess[s].web.kind # "page"

\* C27: when fetching the page fails inside fetch_page (an HTTP error or any
\* exception in the try block), the function does not raise: it returns the
\* fallback record, having written an error page to index.html, with empty
\* css_paths and external_css_text and the placeholder screenshot as full,
\* viewport and slices, and the run goes on.
C27_FetchFailureFallsBack ==
    (app # Pending) =>
       \A s \in AppSessions :
          FetchFailed(s) =>
             /\ app.sess[s].fetched.status = "returned"
             /\ app.sess[s].fetched.index_html # NoneV
             /\ app.sess[s].fetched.value.css_paths = <<>>
             /\ app.sess[s].fetched.value.external_css_text = ""
             /\ app.sess[s].fetched.value.screenshot_paths =
                   [full |-> PlaceholderPath, viewport |-> PlaceholderPath,
                    slices |-> <<PlaceholderPath>>]
             /\ app.sess[s].pc # "stopped"

====
